---- MODULE Spec2Model ----
(***************************************************************************)
(* Context-metabolism kernel of metaboliq-qwen-agent: KernelState and the  *)
(* MetaboliqAgent._run loop (qwen_agent/agents/metaboliq_agent.py) and the *)
(* erase tool (qwen_agent/tools/erase.py).                                 *)
(*                                                                         *)
(* Messages are objects: the kernel tracks them by id(msg).  A message is  *)
(* a number (its identity) and `heap` gives the fields of every object     *)
(* that is still referenced.                                               *)
(***************************************************************************)
EXTENDS Integers, Sequences, FiniteSets, TLC

\* ---------------------------------------------------------------- bounds
\* Most assistant messages one LLM call returns.
MaxOut == 2
\* LLM calls of one _run invocation (MAX_LLM_CALL_PER_RUN of qwen_agent.settings).
MaxLlmCallPerRun == 3
\* Cap of the kernel's call counter: no LLM call starts beyond it.
MaxCallIndex == 3
\* Longest message list handed to _run.
MaxInputLen == 4

\* ------------------------------------------------------------- constants
\* KernelState.__init__: cfg.get('import_stage_ttl_calls', 2)
DefaultTtlCalls == 2
\* last_summary_message = None
None == 0

\* The values of cfg['import_stage_ttl_calls'] the model is run with; a value
\* <= 0 switches the stage TTL off (_enforce_stage_ttl returns early).
TtlConfigs == {0, DefaultTtlCalls}

\* cfg['import_cap_chars'] (1200 by default), scaled down: the cap the model
\* is run with when the cap is on.
ImportCapChars == 2

\* A value <= 0 of cfg['import_cap_chars'] switches truncation off
\* (_truncate_content returns the content as it is).

Roles == {"system", "user", "assistant", "function"}
InputRoles == {"system", "user", "assistant"}

\* ------------------------------------------------------- sequence helpers
RECURSIVE SeqsUpTo(_, _)
SeqsUpTo(S, n) ==
    IF n = 0 THEN {<<>>}
    ELSE LET shorter == SeqsUpTo(S, n - 1)
         IN  shorter \cup {Append(s, x) : s \in {t \in shorter : Len(t) = n - 1}, x \in S}

Range(s) == {s[i] : i \in 1..Len(s)}

\* [m for m in s if m in keep]
KeepIn(s, keep) == SelectSeq(s, LAMBDA m : m \in keep)

\* [m for m in s if m not in drop]
DropIn(s, drop) == SelectSeq(s, LAMBDA m : m \notin drop)

\* ------------------------------------------------------------ the objects
\* Message(role=..., content=...).  `content` is a tag of what the message
\* carries ("notice" for the policy_notice message, whose
\* content['expired_entries'] is `expired`); the name of a function message is
\* not kept, nothing in the kernel reads it.
Msg(role, content, expired) ==
    [role |-> role, content |-> content, expired |-> expired, chars |-> 0]

\* Message m with a string content of n characters.  `chars` is the length of
\* a content the loop has put under the cap (a tool result, a captured
\* summary); it is 0 for a message whose length nothing reads.
Sized(m, n) == [m EXCEPT !.chars = n]

\* len(_truncate_content(content, cap)) for a str content, or a dict whose JSON
\* has that length, of n characters (lines 399-402 and 418-422): the first cap
\* characters and '...'.
truncate_content(n, cap) ==
    IF cap <= 0 THEN n
    ELSE IF n <= cap THEN n
    ELSE cap + 3

\* id() of a new object: an address no referenced object holds.  Identities in
\* the promoted set are not handed out again (their messages are kept by the
\* caller's response lists).
NewId(h, promoted) ==
    CHOOSE i \in 1..(Cardinality(DOMAIN h \cup promoted) + 1) :
        /\ i \notin DOMAIN h \cup promoted
        /\ \A j \in 1..(i - 1) : j \in DOMAIN h \cup promoted

\* The heap with one more object.
Alloc(h, i, m) == [j \in DOMAIN h \cup {i} |-> IF j = i THEN m ELSE h[j]]

\* The heap without the objects nothing refers to any more.
Collect(h, live) == [j \in DOMAIN h \cap live |-> h[j]]

UserOrSystem(h, m) == h[m].role \in {"user", "system"}

\* ----------------------------------------------------------- KernelState
\* The operators below take and return `k`, a record of the kernel fields a
\* method reads or writes, together with the message list it is handed
\* (k.messages, mutated in place by the code) and the heap.

\* def set_import_stage(self, stage)
set_import_stage(k, stage) ==
    IF stage # k.import_stage
    THEN [k EXCEPT !.import_stage = stage,
                   !.import_stage_started_at = k.call_index]
    ELSE k

\* mark_ephemeral without its test of the promoted set.
mark_ephemeral_Promoted(k, msg, ttl_calls, kind) ==
    [k EXCEPT !.ephemeral_entries =
        Append(@, [message |-> msg,
                   expires_at |-> k.call_index + ttl_calls,
                   kind |-> kind])]

\* def mark_ephemeral(self, msg, ttl_calls=1, kind='tool')
mark_ephemeral(k, msg, ttl_calls, kind) ==
    IF msg \in k.promoted_message_ids
    THEN k
    ELSE [k EXCEPT !.ephemeral_entries =
              Append(@, [message |-> msg,
                         expires_at |-> k.call_index + ttl_calls,
                         kind |-> kind])]

\* def _remove_ephemeral(self, msg)
remove_ephemeral(k, msg) ==
    [k EXCEPT !.ephemeral_entries = SelectSeq(@, LAMBDA e : e.message # msg)]

\* def _remove_ephemeral_except(self, keep_ids)
remove_ephemeral_except(k, keep_ids) ==
    [k EXCEPT !.ephemeral_entries = SelectSeq(@, LAMBDA e : e.message \in keep_ids)]

\* _promote_message without its call of _remove_ephemeral.
promote_message_KeepsEntry(k, msg) ==
    [k EXCEPT !.promoted_message_ids = @ \cup {msg}]

\* def _promote_message(self, msg)
promote_message(k, msg) ==
    remove_ephemeral([k EXCEPT !.promoted_message_ids = @ \cup {msg}], msg)

\* def promote_last_summary(self): the kernel after the call (the return value
\* is last_summary_message, None when there is none).
promote_last_summary(k) ==
    IF k.last_summary_message = None
    THEN k
    ELSE promote_message(k, k.last_summary_message)

\* def mark_summary_candidate(self, msg)
mark_summary_candidate(k, msg) ==
    mark_ephemeral([k EXCEPT !.last_summary_message = msg], msg, 1, "summary")

\* def replace_with_summary(self, messages, summary_msg)
replace_with_summary(k, summary_msg) ==
    LET keep_ids == {summary_msg} \cup k.promoted_message_ids
        kept == SelectSeq(k.messages,
                          LAMBDA m : UserOrSystem(k.heap, m) \/ m \in keep_ids)
        k1 == remove_ephemeral_except([k EXCEPT !.messages = kept], keep_ids)
    IN  [k1 EXCEPT !.last_summary_message = summary_msg]

\* def request_summary(self)
request_summary(k) ==
    set_import_stage([k EXCEPT !.summary_requested = TRUE], "summarize")

\* _enforce_stage_ttl that fires one call late (> for >=).
enforce_stage_ttl_Late(k, ttl) ==
    IF k.import_stage = "idle" THEN k
    ELSE IF ttl <= 0 THEN k
    ELSE IF k.call_index - k.import_stage_started_at > ttl
    THEN [k EXCEPT !.messages = SelectSeq(@, LAMBDA m : UserOrSystem(k.heap, m)),
                   !.ephemeral_entries = <<>>,
                   !.last_summary_message = None,
                   !.promoted_message_ids = {},
                   !.import_stage = "idle",
                   !.import_stage_started_at = k.call_index]
    ELSE k

\* _enforce_stage_ttl that leaves the ephemeral table alone.
enforce_stage_ttl_KeepsEntries(k, ttl) ==
    IF k.import_stage = "idle" THEN k
    ELSE IF ttl <= 0 THEN k
    ELSE IF k.call_index - k.import_stage_started_at >= ttl
    THEN [k EXCEPT !.messages = SelectSeq(@, LAMBDA m : UserOrSystem(k.heap, m)),
                   !.last_summary_message = None,
                   !.promoted_message_ids = {},
                   !.import_stage = "idle",
                   !.import_stage_started_at = k.call_index]
    ELSE k

\* def _enforce_stage_ttl(self, messages); ttl is self.import_stage_ttl_calls
enforce_stage_ttl(k, ttl) ==
    IF k.import_stage = "idle" THEN k
    ELSE IF ttl <= 0 THEN k
    ELSE IF k.call_index - k.import_stage_started_at >= ttl
    THEN [k EXCEPT !.messages = SelectSeq(@, LAMBDA m : UserOrSystem(k.heap, m)),
                   !.ephemeral_entries = <<>>,
                   !.last_summary_message = None,
                   !.promoted_message_ids = {},
                   !.import_stage = "idle",
                   !.import_stage_started_at = k.call_index]
    ELSE k

\* The loop of _mark_default_ephemeral from position i on; `existing` is the
\* set computed before the loop.
RECURSIVE mark_default_from(_, _, _)
mark_default_from(k, existing, i) ==
    IF i > Len(k.messages) THEN k
    ELSE LET msg == k.messages[i]
             k1 == IF \/ UserOrSystem(k.heap, msg)
                      \/ msg \in k.promoted_message_ids
                      \/ msg \in existing
                   THEN k
                   ELSE mark_ephemeral(k, msg, 1, "auto")
         IN  mark_default_from(k1, existing, i + 1)

\* def _mark_default_ephemeral(self, messages)
mark_default_ephemeral(k) ==
    mark_default_from(k, {e.message : e \in Range(k.ephemeral_entries)}, 1)

\* _prune_ephemeral that takes an entry as expired already at the call it
\* expires at (<= for <).
prune_ephemeral_Eager(k) ==
    LET expired(e) == e.expires_at <= k.call_index
        keep == SelectSeq(k.ephemeral_entries, LAMBDA e : ~expired(e))
        to_remove == {e.message : e \in {x \in Range(k.ephemeral_entries) : expired(x)}}
    IN  IF to_remove = {}
        THEN [k EXCEPT !.ephemeral_entries = keep]
        ELSE LET summary_gone == /\ k.last_summary_message # None
                                 /\ k.last_summary_message \in to_remove
                 k1 == [k EXCEPT
                          !.messages = DropIn(@, to_remove),
                          !.last_summary_message = IF summary_gone THEN None ELSE @,
                          !.import_stage =
                              IF summary_gone /\ @ = "summarize" THEN "idle" ELSE @,
                          !.summary_requested = IF summary_gone THEN FALSE ELSE @]
                 notice == NewId(k1.heap, k1.promoted_message_ids)
                 k2 == [k1 EXCEPT
                          !.heap = Alloc(@, notice,
                                         Msg("function", "notice",
                                             Cardinality(to_remove))),
                          !.messages = Append(@, notice)]
             IN  [k2 EXCEPT !.ephemeral_entries = keep]

\* _prune_ephemeral that puts its notice in front of the list.
prune_ephemeral_NoticeFirst(k) ==
    LET expired(e) == e.expires_at < k.call_index
        keep == SelectSeq(k.ephemeral_entries, LAMBDA e : ~expired(e))
        to_remove == {e.message : e \in {x \in Range(k.ephemeral_entries) : expired(x)}}
    IN  IF to_remove = {}
        THEN [k EXCEPT !.ephemeral_entries = keep]
        ELSE LET summary_gone == /\ k.last_summary_message # None
                                 /\ k.last_summary_message \in to_remove
                 k1 == [k EXCEPT
                          !.messages = DropIn(@, to_remove),
                          !.last_summary_message = IF summary_gone THEN None ELSE @,
                          !.import_stage =
                              IF summary_gone /\ @ = "summarize" THEN "idle" ELSE @,
                          !.summary_requested = IF summary_gone THEN FALSE ELSE @]
                 notice == NewId(k1.heap, k1.promoted_message_ids)
                 k2 == [k1 EXCEPT
                          !.heap = Alloc(@, notice,
                                         Msg("function", "notice",
                                             Cardinality(to_remove))),
                          !.messages = <<notice>> \o @]
             IN  [k2 EXCEPT !.ephemeral_entries = keep]

\* _prune_ephemeral that leaves summary_requested alone (without line 153).
prune_ephemeral_KeepsRequest(k) ==
    LET expired(e) == e.expires_at < k.call_index
        keep == SelectSeq(k.ephemeral_entries, LAMBDA e : ~expired(e))
        to_remove == {e.message : e \in {x \in Range(k.ephemeral_entries) : expired(x)}}
    IN  IF to_remove = {}
        THEN [k EXCEPT !.ephemeral_entries = keep]
        ELSE LET summary_gone == /\ k.last_summary_message # None
                                 /\ k.last_summary_message \in to_remove
                 k1 == [k EXCEPT
                          !.messages = DropIn(@, to_remove),
                          !.last_summary_message = IF summary_gone THEN None ELSE @,
                          !.import_stage =
                              IF summary_gone /\ @ = "summarize" THEN "idle" ELSE @]
                 notice == NewId(k1.heap, k1.promoted_message_ids)
                 k2 == [k1 EXCEPT
                          !.heap = Alloc(@, notice,
                                         Msg("function", "notice",
                                             Cardinality(to_remove))),
                          !.messages = Append(@, notice)]
             IN  [k2 EXCEPT !.ephemeral_entries = keep]

\* def _prune_ephemeral(self, messages)
prune_ephemeral(k) ==
    LET expired(e) == e.expires_at < k.call_index
        keep == SelectSeq(k.ephemeral_entries, LAMBDA e : ~expired(e))
        to_remove == {e.message : e \in {x \in Range(k.ephemeral_entries) : expired(x)}}
    IN  IF to_remove = {}
        THEN [k EXCEPT !.ephemeral_entries = keep]
        ELSE LET summary_gone == /\ k.last_summary_message # None
                                 /\ k.last_summary_message \in to_remove
                 k1 == [k EXCEPT
                          !.messages = DropIn(@, to_remove),
                          !.last_summary_message = IF summary_gone THEN None ELSE @,
                          !.import_stage =
                              IF summary_gone /\ @ = "summarize" THEN "idle" ELSE @,
                          !.summary_requested = IF summary_gone THEN FALSE ELSE @]
                 notice == NewId(k1.heap, k1.promoted_message_ids)
                 k2 == [k1 EXCEPT
                          !.heap = Alloc(@, notice,
                                         Msg("function", "notice",
                                             Cardinality(to_remove))),
                          !.messages = Append(@, notice)]
                 k3 == mark_ephemeral(k2, notice, 1, "policy")
             \* line 161 assigns the list built before the notice was marked
             IN  [k3 EXCEPT !.ephemeral_entries = keep]

\* def begin_llm_call(self, messages)
begin_llm_call(k, ttl) ==
    prune_ephemeral(
        mark_default_ephemeral(
            enforce_stage_ttl([k EXCEPT !.call_index = @ + 1], ttl)))

\* def _to_public_history(messages)
to_public_history(h, msgs) ==
    LET pub == SelectSeq(msgs, LAMBDA m : h[m].role \in {"user", "assistant"})
    IN  [i \in 1..Len(pub) |-> [role |-> h[pub[i]].role, content |-> h[pub[i]].content]]

\* ------------------------------------------------------------- EraseTool
\* A selector of params['targets']: {'index': i}, {'range': {'start', 'end'}} or
\* {'role', 'last'}; indices count from 0 as in the code.
IndexTarget(i) == [sel |-> "index", index |-> i, start |-> 0, end |-> 0, role |-> "", last |-> 0]
RangeTarget(a, b) == [sel |-> "range", index |-> 0, start |-> a, end |-> b, role |-> "", last |-> 0]
RoleTarget(r, n) == [sel |-> "role", index |-> 0, start |-> 0, end |-> 0, role |-> r, last |-> n]

\* erasable_roles = {ASSISTANT, FUNCTION, 'user'}
ErasableRoles == {"assistant", "function", "user"}

Min(a, b) == IF a < b THEN a ELSE b
Max(a, b) == IF a > b THEN a ELSE b

\* The indices one selector adds to to_erase (lines 102-131).
TargetIndices(h, msgs, t) ==
    LET n == Len(msgs)
        erasable(i) == h[msgs[i + 1]].role \in ErasableRoles
    IN  CASE t.sel = "index" ->
               {i \in {t.index} : 0 <= i /\ i < n /\ erasable(i)}
          [] t.sel = "range" ->
               LET lo == IF t.start > t.end THEN t.end ELSE t.start
                   hi == IF t.start > t.end THEN t.start ELSE t.end
               IN  {i \in Max(0, lo)..(Min(n, hi + 1) - 1) : erasable(i)}
          [] t.sel = "role" ->
               LET indices == SelectSeq([i \in 1..n |-> i - 1],
                                        LAMBDA i : h[msgs[i + 1]].role = t.role)
                   cnt == Len(indices)
                   \* indices[-last:]
                   from == IF t.last > 0 THEN Max(0, cnt - t.last)
                           ELSE Min(cnt, 0 - t.last)
               IN  {indices[j] : j \in {x \in (from + 1)..cnt : erasable(indices[x])}}
          [] OTHER -> {}

\* The indices one selector appends to 'skipped' (and, with reason
\* role_not_erasable, to 'skipped_reasons'), in the order it appends them; the
\* role/last branch (lines 124-131) appends none.
TargetSkipped(h, msgs, t) ==
    LET n == Len(msgs)
        erasable(i) == h[msgs[i + 1]].role \in ErasableRoles
        indices == [i \in 1..n |-> i - 1]
    IN  CASE t.sel = "index" ->
               SelectSeq(indices, LAMBDA i : i = t.index /\ ~erasable(i))
          [] t.sel = "range" ->
               LET lo == IF t.start > t.end THEN t.end ELSE t.start
                   hi == IF t.start > t.end THEN t.start ELSE t.end
               IN  SelectSeq(indices, LAMBDA i : /\ Max(0, lo) <= i
                                                 /\ i <= Min(n, hi + 1) - 1
                                                 /\ ~erasable(i))
          [] OTHER -> <<>>

\* 'skipped' after the loop over the targets, from target j on.
RECURSIVE Skipped(_, _, _, _)
Skipped(h, msgs, targets, j) ==
    IF j > Len(targets) THEN <<>>
    ELSE TargetSkipped(h, msgs, targets[j]) \o Skipped(h, msgs, targets, j + 1)

\* The dict EraseTool.call returns: which return statement made it, 'erased',
\* 'skipped' and, of the help payload, the index of 'example' (<<>> for None)
\* and the index and role of each entry of 'recent'.
EraseResult(kind, erased, skipped, example, recent) ==
    [kind |-> kind, erased |-> erased, skipped |-> skipped,
     example |-> example, recent |-> recent]

\* No call of the tool has returned yet.
NoResult == EraseResult("", <<>>, <<>>, <<>>, <<>>)

\* start = max(0, len(messages) - 6), line 71
PreviewLen == 6

\* A help response that previews the whole list.
HelpResult_WholeList(h, msgs) ==
    LET n == Len(msgs)
        assistants == {i \in 0..(n - 1) : h[msgs[i + 1]].role = "assistant"}
        last_assistant == CHOOSE i \in assistants : \A j \in assistants : j <= i
    IN  EraseResult("help", <<>>, <<>>,
                    IF assistants = {} THEN <<>> ELSE <<last_assistant>>,
                    [j \in 1..n |-> [index |-> j - 1, role |-> h[msgs[j]].role]])

\* Lines 48-95: the help response for empty or missing targets.
HelpResult(h, msgs) ==
    LET n == Len(msgs)
        assistants == {i \in 0..(n - 1) : h[msgs[i + 1]].role = "assistant"}
        last_assistant == CHOOSE i \in assistants : \A j \in assistants : j <= i
        start == Max(0, n - PreviewLen)
    IN  EraseResult("help", <<>>, <<>>,
                    IF assistants = {} THEN <<>> ELSE <<last_assistant>>,
                    [j \in 1..(n - start) |->
                        [index |-> start + j - 1, role |-> h[msgs[start + j]].role]])

\* to_erase after the loop over the targets.
ToErase(h, msgs, targets) ==
    UNION {TargetIndices(h, msgs, targets[j]) : j \in 1..Len(targets)}

\* The kept messages with no synthetic user message ever inserted.
EraseKept_NoRepair(h, msgs, to_erase, fresh) ==
    LET pos == SelectSeq([i \in 1..Len(msgs) |-> i], LAMBDA i : (i - 1) \notin to_erase)
    IN  [messages |-> [j \in 1..Len(pos) |-> msgs[pos[j]]], inserted |-> FALSE]

\* Lines 141-158: the kept messages, with the synthetic user message `fresh`
\* inserted before the first non-system message when that is not a user message.
\* Returns the new list and whether `fresh` was used.
EraseKept(h, msgs, to_erase, fresh) ==
    LET pos == SelectSeq([i \in 1..Len(msgs) |-> i], LAMBDA i : (i - 1) \notin to_erase)
        kept == [j \in 1..Len(pos) |-> msgs[pos[j]]]
        nonsys == {j \in 1..Len(kept) : h[kept[j]].role # "system"}
        first_idx == IF nonsys = {} THEN 0
                     ELSE CHOOSE j \in nonsys : \A x \in nonsys : j <= x
    IN  IF first_idx # 0 /\ h[kept[first_idx]].role # "user"
        THEN [messages |-> SubSeq(kept, 1, first_idx - 1) \o <<fresh>>
                               \o SubSeq(kept, first_idx, Len(kept)),
              inserted |-> TRUE]
        ELSE [messages |-> kept, inserted |-> FALSE]

\* def update_working_context(self, messages), called with the loop's list:
\* working_context becomes that very list object.
update_working_context(k) ==
    [k EXCEPT !.wc_is_messages = TRUE,
              !.working_context = <<>>,
              !.public_history = to_public_history(k.heap, k.messages)]

\* def mark_erased(self)
mark_erased(k) == [k EXCEPT !.erased_last_call = TRUE]

\* EraseTool.call(params, messages=messages, kernel=kernel): the kernel and the
\* list after the call; `outcome` is "help", "none" or "erased", `result` is
\* the dict returned.
EraseCall(k, targets) ==
    IF Len(targets) = 0
    THEN [k |-> k, outcome |-> "help", result |-> HelpResult(k.heap, k.messages)]
    ELSE LET to_erase == ToErase(k.heap, k.messages, targets)
             skipped == Skipped(k.heap, k.messages, targets, 1)
             erased_ids == SelectSeq([i \in 1..Len(k.messages) |-> i - 1],
                                     LAMBDA i : i \in to_erase)
         IN  IF to_erase = {}
             THEN [k |-> k, outcome |-> "none",
                   result |-> EraseResult("none", <<>>, skipped, <<>>, <<>>)]
             ELSE LET fresh == NewId(k.heap, k.promoted_message_ids)
                      r == EraseKept(k.heap, k.messages, to_erase, fresh)
                      k1 == [k EXCEPT
                               !.heap = IF r.inserted
                                        THEN Alloc(@, fresh, Msg("user", "[deleted]", 0))
                                        ELSE @,
                               !.messages = r.messages]
                  IN  [k |-> mark_erased(update_working_context(k1)),
                       outcome |-> "erased",
                       result |-> EraseResult("erased", erased_ids, skipped, <<>>, <<>>)]

\* --------------------------------------------------------------- the state
\* ------------------------------------------------------------ shape tools
\* The values the shape tools read and write: an int, a str or a list of ints.
\* A str is the sequence of its characters (code points); a list of ints is
\* the sequence of its items; an int n is <<n>>.
IntV(n) == [t |-> "int", v |-> <<n>>]
StrV(s) == [t |-> "str", v |-> s]
ListV(l) == [t |-> "list", v |-> l]

\* DEFAULT_PAGE_SIZE (50 in the code), the page_size of a call that gives none.
DefaultPageSize == 2

\* str.splitlines() for a str whose only line boundary is '\n' (code point 10):
\* the lines without their ends, and no empty last line after a final '\n'.
RECURSIVE SplitAt(_, _, _, _)
SplitAt(s, i, cur, acc) ==
    IF i > Len(s) THEN (IF cur = <<>> THEN acc ELSE Append(acc, cur))
    ELSE IF s[i] = 10 THEN SplitAt(s, i + 1, <<>>, Append(acc, cur))
    ELSE SplitAt(s, i + 1, Append(cur, s[i]), acc)

splitlines(s) == SplitAt(s, 1, <<>>, <<>>)

\* '\n'.join(lines)
RECURSIVE join(_)
join(lines) ==
    IF Len(lines) = 0 THEN <<>>
    ELSE IF Len(lines) = 1 THEN lines[1]
    ELSE lines[1] \o <<10>> \o join(Tail(lines))

\* paginate_list with one of its tests turned round.
paginate_list_Off(items, page, page_size) ==
    LET p == IF page < 1 THEN 1 ELSE page
        ps == IF page_size < 1 THEN DefaultPageSize ELSE page_size
        total == Len(items)
        start == (p - 1) * ps
        end == start + ps
    IN  [items |-> SubSeq(items, start + 1, Min(end, total)),
         page |-> p, page_size |-> ps, total |-> total,
         truncated |-> end <= total,
         next_page |-> IF end <= total THEN p + 1 ELSE None]

\* def paginate_list(items, page, page_size); next_page None is None.
paginate_list(items, page, page_size) ==
    LET p == IF page < 1 THEN 1 ELSE page
        ps == IF page_size < 1 THEN DefaultPageSize ELSE page_size
        total == Len(items)
        start == (p - 1) * ps
        end == start + ps
    IN  [items |-> SubSeq(items, start + 1, Min(end, total)),
         page |-> p, page_size |-> ps, total |-> total,
         truncated |-> end < total,
         next_page |-> IF end < total THEN p + 1 ELSE None]

\* def paginate_text(text, page, page_size)
paginate_text(text, page, page_size) ==
    LET page_info == paginate_list(splitlines(text), page, page_size)
    IN  [text |-> join(page_info.items),
         page |-> page_info.page, page_size |-> page_info.page_size,
         total |-> page_info.total, truncated |-> page_info.truncated,
         next_page |-> page_info.next_page]

\* What a handler call gives back: ok is FALSE when it raised; `value` is
\* resp['value']; the page fields are 0 in a response that has none.
Raised == [ok |-> FALSE, value |-> IntV(0), paged |-> FALSE, page |-> 0,
           page_size |-> 0, total |-> 0, truncated |-> FALSE, next_page |-> None]

Whole(value) == [Raised EXCEPT !.ok = TRUE, !.value = value]

Paged(value, page_info) ==
    [ok |-> TRUE, value |-> value, paged |-> TRUE, page |-> page_info.page,
     page_size |-> page_info.page_size, total |-> page_info.total,
     truncated |-> page_info.truncated, next_page |-> page_info.next_page]

\* {'changed': True, 'kind': kind}
Changed == Whole(IntV(1))

\* A selector: for a map ['key'] or ['key', i]; for a table [row, 'column'];
\* for a tree 'function:<name>'.  `path` holds the integers of the selector.
Selector(key, path) == [key |-> key, path |-> path]

\* ---- MapLikeHandler on a .json file whose top level is a dict.  The file is
\* kept as the value json.loads gives: json.dumps and json.loads give back
\* ints, strs, lists of ints and dicts with str keys as they were.

\* MapLikeHandler.select, lines 38-83.  For a list both tests of line 62 lead to
\* the same items when len(obj) <= page_size.
map_select(doc, sel, page, page_size) ==
    IF sel.key \notin DOMAIN doc THEN Raised
    ELSE LET top == doc[sel.key]
             found == sel.path = <<>>
                        \/ /\ top.t \in {"list", "str"}
                           /\ sel.path[1] \in 0..(Len(top.v) - 1)
             obj == IF sel.path = <<>> THEN top
                    ELSE IF top.t = "list" THEN IntV(top.v[sel.path[1] + 1])
                    ELSE StrV(<<top.v[sel.path[1] + 1]>>)
         IN  IF ~found THEN Raised
             ELSE IF obj.t = "list"
             THEN IF Len(obj.v) <= page_size THEN Whole(obj)
                  ELSE LET page_info == paginate_list(obj.v, page, page_size)
                       IN  Paged(ListV(page_info.items), page_info)
             ELSE IF obj.t = "str"
             THEN LET page_info == paginate_text(obj.v, page, page_size)
                  IN  Paged(StrV(page_info.text), page_info)
             ELSE Whole(obj)

\* MapLikeHandler.replace, lines 85-97: [resp, doc].  An item of a list is
\* replaced by an int here.
map_replace(doc, sel, value) ==
    IF sel.path = <<>>
    THEN [resp |-> Changed,
          doc |-> [k \in DOMAIN doc \cup {sel.key} |->
                     IF k = sel.key THEN value ELSE doc[k]]]
    ELSE IF sel.key \notin DOMAIN doc THEN [resp |-> Raised, doc |-> doc]
    ELSE LET top == doc[sel.key]
         IN  IF /\ top.t = "list"
                /\ sel.path[1] \in 0..(Len(top.v) - 1)
             THEN [resp |-> Changed,
                   doc |-> [doc EXCEPT ![sel.key] =
                              ListV([top.v EXCEPT ![sel.path[1] + 1] = value.v[1]])]]
             ELSE [resp |-> Raised, doc |-> doc]

\* ---- TableHandler on a .csv file, csv module (pandas not installed).  The
\* file is kept as _read_table gives it: the header and the rows of cells,
\* every cell a str.

\* str(n) for n >= 0, as csv.writer writes a cell that is not a str.
RECURSIVE Digits(_)
Digits(n) == IF n < 10 THEN <<48 + n>> ELSE Append(Digits(n \div 10), 48 + (n % 10))

\* The cell _read_table gives after _write_table wrote `value`: a str comes
\* back as it was (a cell with '\n' is quoted), an int as its decimal digits.
CsvCell(value) == IF value.t = "int" THEN Digits(value.v[1]) ELSE value.v

\* header.index(col), 0 when col is no column.
ColIdx(header, col) ==
    IF \E i \in 1..Len(header) : header[i] = col
    THEN CHOOSE i \in 1..Len(header) : header[i] = col
    ELSE 0

\* Selector [row, col] addresses a cell.
CellAt(doc, sel) ==
    /\ Len(sel.path) = 1
    /\ sel.path[1] \in 0..(Len(doc.rows) - 1)
    /\ ColIdx(doc.header, sel.key) # 0

\* TableHandler.select, lines 65-73.
table_select(doc, sel) ==
    IF CellAt(doc, sel)
    THEN Whole(StrV(doc.rows[sel.path[1] + 1][ColIdx(doc.header, sel.key)]))
    ELSE Raised

\* TableHandler.replace, lines 89-99, for a value that is an int or a str.
table_replace(doc, sel, value) ==
    IF CellAt(doc, sel)
    THEN [resp |-> Changed,
          doc |-> [doc EXCEPT !.rows[sel.path[1] + 1][ColIdx(doc.header, sel.key)]
                                  = CsvCell(value)]]
    ELSE [resp |-> Raised, doc |-> doc]

\* ---- TreeHandler on a .py file.  A source text is a str in which one
\* character stands for the text of one line: 102 for the line 'def f():',
\* 103 for 'def g():', 98 for an indented statement; 10 is '\n'.
IsHeader(line) == line \in {<<102>>, <<103>>}
IsBody(line) == line = <<98>>
IsBlank(line) == line = <<>>

\* ast.parse(source) succeeds: every line is one of the above or blank, each
\* def line is followed by its body and an indented line follows a def line or
\* another indented line (blank lines between them do not count).
Parses(lines) ==
    LET code == SelectSeq(lines, LAMBDA l : ~IsBlank(l))
    IN  /\ \A i \in 1..Len(code) : IsHeader(code[i]) \/ IsBody(code[i])
        /\ \A i \in 1..Len(code) :
              /\ IsHeader(code[i]) => (i < Len(code) /\ IsBody(code[i + 1]))
              /\ IsBody(code[i]) => i > 1

\* node.end_lineno of the def at line i: its last indented line.
NodeEnd(lines, i) ==
    LET inside == {j \in (i + 1)..Len(lines) :
                     /\ IsBody(lines[j])
                     /\ \A m \in (i + 1)..j : IsBody(lines[m]) \/ IsBlank(lines[m])}
    IN  CHOOSE j \in inside : \A m \in inside : m <= j

\* The line of the first def of tree.body with the selector's name, 0 if none.
NodeAt(lines, sel) ==
    LET want == IF sel.key = "function:f" THEN <<102>>
                ELSE IF sel.key = "function:g" THEN <<103>> ELSE <<0>>
        at == {i \in 1..Len(lines) : lines[i] = want}
    IN  IF at = {} THEN 0 ELSE CHOOSE i \in at : \A j \in at : i <= j

\* TreeHandler.select, lines 28-43.
tree_select(source, sel, page, page_size) ==
    LET lines == splitlines(source)
        i == NodeAt(lines, sel)
    IN  IF ~Parses(lines) \/ i = 0 THEN Raised
        ELSE LET segment == join(SubSeq(lines, i, NodeEnd(lines, i)))
                 page_info == paginate_text(segment, page, page_size)
             IN  Paged(StrV(page_info.text), page_info)

\* source.splitlines(keepends=True) joined again: every line with its end; the
\* sources here end with '\n'.
RECURSIVE keepends(_)
keepends(lines) ==
    IF Len(lines) = 0 THEN <<>> ELSE lines[1] \o <<10>> \o keepends(Tail(lines))

\* TreeHandler.replace and _replace_node, lines 45-68.
tree_replace(source, sel, value) ==
    LET lines == splitlines(source)
        i == NodeAt(lines, sel)
    IN  IF value.t # "str" \/ ~Parses(lines) \/ i = 0
        THEN [resp |-> Raised, doc |-> source]
        ELSE LET replacement ==
                     IF value.v # <<>> /\ value.v[Len(value.v)] = 10
                     THEN value.v ELSE Append(value.v, 10)
             IN  [resp |-> Changed,
                  doc |-> keepends(SubSeq(lines, 1, i - 1)) \o replacement
                            \o keepends(SubSeq(lines, NodeEnd(lines, i) + 1,
                                               Len(lines)))]

\* ---- the tools: the handler is chosen by the kind of the file.
select(kind, doc, sel, page, page_size) ==
    IF kind = "map" THEN map_select(doc, sel, page, page_size)
    ELSE IF kind = "table" THEN table_select(doc, sel)
    ELSE tree_select(doc, sel, page, page_size)

replace(kind, doc, sel, value) ==
    IF kind = "map" THEN map_replace(doc, sel, value)
    ELSE IF kind = "table" THEN table_replace(doc, sel, value)
    ELSE tree_replace(doc, sel, value)

\* No file, no request.
NoRequest == [op |-> "none", sel |-> Selector("", <<>>), value |-> IntV(0),
              page |-> 0, page_size |-> 0]

NoShape == [kind |-> "", doc |-> <<>>, req |-> NoRequest, resp |-> Raised,
            replaced |-> NoRequest]

VARIABLES
    \* MetaboliqAgent._run: where the generator stands and its locals
    pc,                       \* "idle" (no invocation), "loop", "llm", "tools", "done"
    messages,                 \* the list handed to the LLM, mutated in place
    initial_messages,         \* copy.deepcopy(messages) taken on entry
    response,
    output,                   \* the messages the last LLM call returned
    out_idx,                  \* the one the for loop of line 270 handles next
    used_any_tool,
    num_llm_calls_available,
    heap,                     \* the fields of every referenced Message object
    \* KernelState
    call_index,
    import_stage,
    import_stage_started_at,
    import_stage_ttl_calls,
    import_cap_chars,
    ephemeral_entries,
    promoted_message_ids,
    last_summary_message,
    summary_requested,
    erased_last_call,
    working_context,          \* the list, when it is not the loop's `messages` object
    wc_is_messages,           \* working_context is the loop's `messages` object
    public_history,
    audit_journal,
    \* the caller of a tool
    erase_result,             \* what the last direct call of EraseTool.call returned
    \* the caller of the shape tools
    shape                     \* the file, the last request and what it returned

vars == <<pc, messages, initial_messages, response, output, out_idx, used_any_tool,
          num_llm_calls_available, heap, call_index, import_stage,
          import_stage_started_at, import_stage_ttl_calls, import_cap_chars,
          ephemeral_entries,
          promoted_message_ids, last_summary_message, summary_requested,
          erased_last_call, working_context, wc_is_messages, public_history,
          audit_journal, erase_result, shape>>

\* kernel.working_context as a list, whichever object it is.
WorkingContext == IF wc_is_messages THEN messages ELSE working_context

\* The kernel fields, the loop's list and the heap as the record the operators take.
Kernel ==
    [messages |-> messages, heap |-> heap, call_index |-> call_index,
     import_stage |-> import_stage,
     import_stage_started_at |-> import_stage_started_at,
     ephemeral_entries |-> ephemeral_entries,
     promoted_message_ids |-> promoted_message_ids,
     last_summary_message |-> last_summary_message,
     summary_requested |-> summary_requested,
     erased_last_call |-> erased_last_call,
     working_context |-> working_context, wc_is_messages |-> wc_is_messages,
     public_history |-> public_history,
     import_cap_chars |-> import_cap_chars]

\* The objects something still refers to.
LiveIds(k, init, resp, out) ==
    Range(k.messages) \cup Range(init) \cup Range(resp) \cup Range(out)
        \cup Range(k.working_context)
        \cup {e.message : e \in Range(k.ephemeral_entries)}
        \cup ({k.last_summary_message} \ {None})

\* The next state holds kernel record k and the loop locals given.
Becomes(k, init, resp, out) ==
    /\ messages' = k.messages
    /\ initial_messages' = init
    /\ response' = resp
    /\ output' = out
    /\ heap' = Collect(k.heap, LiveIds(k, init, resp, out))
    /\ call_index' = k.call_index
    /\ import_stage' = k.import_stage
    /\ import_stage_started_at' = k.import_stage_started_at
    /\ ephemeral_entries' = k.ephemeral_entries
    /\ promoted_message_ids' = k.promoted_message_ids
    /\ last_summary_message' = k.last_summary_message
    /\ summary_requested' = k.summary_requested
    /\ erased_last_call' = k.erased_last_call
    /\ working_context' = k.working_context
    /\ wc_is_messages' = k.wc_is_messages
    /\ public_history' = k.public_history

\* `roles` new Message objects appended to list `to`: [heap, list].
RECURSIVE NewMessages(_, _, _, _, _)
NewMessages(h, promoted, to, roles, i) ==
    IF i > Len(roles) THEN [heap |-> h, list |-> to]
    ELSE LET id == NewId(h, promoted)
         IN  NewMessages(Alloc(h, id, Msg(roles[i], "text", 0)),
                         promoted, Append(to, id), roles, i + 1)

\* No invocation under way and a kernel as KernelState.__init__ (lines 15-29)
\* leaves it for cfg = {'import_stage_ttl_calls': ttl, 'import_cap_chars': cap}.
KernelInit(ttl, cap) ==
    /\ pc = "idle"
    /\ messages = <<>>
    /\ initial_messages = <<>>
    /\ response = <<>>
    /\ output = <<>>
    /\ out_idx = 1
    /\ used_any_tool = FALSE
    /\ num_llm_calls_available = 0
    /\ heap = <<>>
    /\ call_index = 0
    /\ import_stage = "idle"
    /\ import_stage_started_at = 0
    /\ import_stage_ttl_calls = ttl
    /\ import_cap_chars = cap
    /\ ephemeral_entries = <<>>
    /\ promoted_message_ids = {}
    /\ last_summary_message = None
    /\ summary_requested = FALSE
    /\ erased_last_call = FALSE
    /\ working_context = <<>>
    /\ wc_is_messages = FALSE
    /\ public_history = <<>>
    /\ audit_journal = <<>>
    /\ erase_result = NoResult
    /\ shape = NoShape

\* The agent with the stage TTL on or off and truncation off.
Init == \E ttl \in TtlConfigs : KernelInit(ttl, 0)

\* The message lists a caller hands to _run, by role, as they are after
\* _prepend_knowledge_prompt: the agent's system message comes first (the
\* constructor sets system_message = SYSTEM_MESSAGE and Agent.run puts it in
\* front), then user and assistant turns alternate, from the user's first
\* message to the user's request.
Inputs ==
    {s \in SeqsUpTo(InputRoles, MaxInputLen) :
        /\ Len(s) >= 2
        /\ s[1] = "system"
        /\ s[2] = "user"
        /\ s[Len(s)] = "user"
        /\ \A i \in 2..Len(s) : s[i] # "system" /\ s[i] # s[i - 1]}

\* _run, lines 240-246: the copies and the locals.
StartRun(input) ==
    /\ pc = "idle"
    /\ call_index < MaxCallIndex
    /\ LET m == NewMessages(heap, promoted_message_ids, <<>>, input, 1)
           i == NewMessages(m.heap, promoted_message_ids, <<>>, input, 1)
       IN  Becomes([Kernel EXCEPT !.messages = m.list, !.heap = i.heap],
                   i.list, <<>>, <<>>)
    /\ pc' = "loop"
    /\ num_llm_calls_available' = MaxLlmCallPerRun
    /\ used_any_tool' = FALSE
    /\ out_idx' = 1
    /\ UNCHANGED <<import_stage_ttl_calls, import_cap_chars, erase_result, shape,
                   audit_journal>>

\* The loop head without the decrement of the budget.
BeginLlmCall_FreeCall ==
    /\ pc = "loop"
    /\ num_llm_calls_available > 0
    /\ call_index < MaxCallIndex
    /\ Becomes(update_working_context(begin_llm_call(Kernel, import_stage_ttl_calls)),
               initial_messages, response, output)
    /\ pc' = "llm"
    /\ UNCHANGED <<used_any_tool, out_idx, import_stage_ttl_calls, import_cap_chars,
                   erase_result, shape, audit_journal, num_llm_calls_available>>

\* _run, lines 247-251: the loop test, begin_llm_call and update_working_context.
BeginLlmCall ==
    /\ pc = "loop"
    /\ num_llm_calls_available > 0
    /\ call_index < MaxCallIndex
    /\ num_llm_calls_available' = num_llm_calls_available - 1
    /\ Becomes(update_working_context(begin_llm_call(Kernel, import_stage_ttl_calls)),
               initial_messages, response, output)
    /\ pc' = "llm"
    /\ UNCHANGED <<used_any_tool, out_idx, import_stage_ttl_calls, import_cap_chars,
                   erase_result, shape, audit_journal>>

\* _run, lines 255-269: the LLM returns n assistant messages; they are added to
\* response and messages and marked ephemeral.  With n = 0 `output` is the empty
\* list of line 258 and the loop goes round.
RECURSIVE mark_outputs(_, _, _)
mark_outputs(k, outs, i) ==
    IF i > Len(outs) THEN k
    ELSE mark_outputs(IF UserOrSystem(k.heap, outs[i]) THEN k
                      ELSE mark_ephemeral(k, outs[i], 1, "tool"),
                      outs, i + 1)

LlmOutput(n) ==
    /\ pc = "llm"
    /\ IF n = 0
       THEN /\ pc' = "loop"
            /\ Becomes(Kernel, initial_messages, response, <<>>)
            /\ UNCHANGED used_any_tool
       ELSE LET o == NewMessages(heap, promoted_message_ids, <<>>,
                                 [j \in 1..n |-> "assistant"], 1)
                k1 == [Kernel EXCEPT !.heap = o.heap, !.messages = @ \o o.list]
                k2 == update_working_context(mark_outputs(k1, o.list, 1))
            IN  /\ Becomes(k2, initial_messages, response \o o.list, o.list)
                /\ used_any_tool' = FALSE
                /\ pc' = "tools"
    /\ out_idx' = 1
    /\ UNCHANGED <<num_llm_calls_available, import_stage_ttl_calls, import_cap_chars,
                   erase_result, shape, audit_journal>>

\* ------------------------------------------------- handling one LLM output
\* The function_call of an assistant output as _detect_tool and
\* _parse_tool_args see it: the tool name ("" for plain text), the 'operate'
\* argument of the storage tool and the 'targets' argument of erase.
\* `chars` is the length of what the loop puts under the cap for this output:
\* of its own string content when it is plain text, of the JSON of the tool's
\* result when it is a tool call.
\* `fails` says that the tool raises when it is called.
FnCall(tool, op, targets) ==
    [tool |-> tool, op |-> op, targets |-> targets, chars |-> 1, fails |-> FALSE]

\* The content lengths the model tells apart: short, exactly the cap, one more
\* than the cap.  With the cap off nothing reads a length, and one length
\* stands for all.
ContentLens ==
    IF import_cap_chars <= 0 THEN {1}
    ELSE {1, import_cap_chars, import_cap_chars + 1}

outline_tools == {"describe_file", "storage.scan"}
select_tools == {"extract_section", "storage.get", "retrieval"}

\* Lines 282-288.
StageTool(call) ==
    IF call.tool = "storage" /\ call.op = "scan" THEN "storage.scan"
    ELSE IF call.tool = "storage" /\ call.op = "get" THEN "storage.get"
    ELSE call.tool

\* The stage gates without the one of promote.
Rejected_NoPromoteGate(call, stage) ==
    \/ StageTool(call) \in select_tools /\ stage # "outline"
    \/ call.tool = "summarize" /\ stage # "select"

\* The stage gates without the one of the select tools.
Rejected_NoSelectGate(call, stage) ==
    \/ call.tool = "promote" /\ stage # "summarize"
    \/ call.tool = "summarize" /\ stage # "select"

\* The three stage gates, lines 289, 304 and 319.
Rejected(call, stage) ==
    \/ StageTool(call) \in select_tools /\ stage # "outline"
    \/ call.tool = "promote" /\ stage # "summarize"
    \/ call.tool = "summarize" /\ stage # "select"

\* AppendFunction that does not mark the message ephemeral.
AppendFunction_NoEntry(k, content, chars, update) ==
    LET id == NewId(k.heap, k.promoted_message_ids)
        k1 == [k EXCEPT !.heap = Alloc(@, id, Sized(Msg("function", content, 0), chars)),
                        !.messages = Append(@, id)]
    IN  [k |-> IF update THEN update_working_context(k1) ELSE k1, msg |-> id]

\* A function message appended to messages (and, by the caller, to response) and
\* marked ephemeral: [k, msg].
AppendFunction(k, content, chars, update) ==
    LET id == NewId(k.heap, k.promoted_message_ids)
        k1 == [k EXCEPT !.heap = Alloc(@, id, Sized(Msg("function", content, 0), chars)),
                        !.messages = Append(@, id)]
        k2 == IF update THEN update_working_context(k1) ELSE k1
    IN  [k |-> mark_ephemeral(k2, id, 1, "tool"), msg |-> id]

\* Lines 274-279: a plain assistant output while a summary is awaited.
CaptureSummary(k, out, chars) ==
    IF k.import_stage = "summarize" /\ k.summary_requested
    THEN LET k1 == [k EXCEPT !.heap[out] =
                       Sized(@, truncate_content(chars, k.import_cap_chars))]
         IN  [mark_summary_candidate(replace_with_summary(k1, out), out)
                 EXCEPT !.summary_requested = FALSE]
    ELSE k

\* PromoteTool.call(params, kernel=kernel): whether it returns promoted: True.
PromoteCall(k) ==
    /\ k.import_stage = "summarize"
    /\ k.last_summary_message # None
    /\ ~(/\ k.import_cap_chars # 0
         /\ k.heap[k.last_summary_message].chars > k.import_cap_chars)

\* What the function message of a dispatched call carries: for promote, the
\* 'promoted' flag of the tool's result.
ToolResult(k, call) ==
    IF call.fails THEN "error"
    ELSE IF call.tool = "promote"
    THEN IF PromoteCall(k) THEN "promoted" ELSE "not_promoted"
    ELSE "result"

\* The stage moves of lines 345-354 without the move to idle after a promotion.
StageAfterTool_NoIdle(k, call) ==
    LET k1 == IF StageTool(call) \in outline_tools
              THEN set_import_stage(k, "outline") ELSE k
        k2 == IF StageTool(call) \in select_tools
              THEN set_import_stage(k1, "select") ELSE k1
        k3 == IF call.tool = "summarize" THEN request_summary(k2) ELSE k2
    IN  IF call.tool = "promote" THEN promote_last_summary(k3) ELSE k3

\* The stage moves with every tool that is not a select tool, summarize or
\* promote taken for an outline tool.
StageAfterTool_AllOutline(k, call) ==
    LET k1 == IF StageTool(call) \notin select_tools \cup {"summarize", "promote"}
              THEN set_import_stage(k, "outline") ELSE k
        k2 == IF StageTool(call) \in select_tools
              THEN set_import_stage(k1, "select") ELSE k1
        k3 == IF call.tool = "summarize" THEN request_summary(k2) ELSE k2
    IN  IF call.tool = "promote"
        THEN LET k4 == promote_last_summary(k3)
             IN  IF k3.last_summary_message # None
                 THEN set_import_stage(k4, "idle") ELSE k4
        ELSE k3

\* Lines 345-354: the stage moves after a dispatched tool call.
StageAfterTool(k, call) ==
    LET k1 == IF StageTool(call) \in outline_tools
              THEN set_import_stage(k, "outline") ELSE k
        k2 == IF StageTool(call) \in select_tools
              THEN set_import_stage(k1, "select") ELSE k1
        k3 == IF call.tool = "summarize" THEN request_summary(k2) ELSE k2
    IN  IF call.tool = "promote"
        THEN LET k4 == promote_last_summary(k3)
             IN  IF k3.last_summary_message # None
                 THEN set_import_stage(k4, "idle") ELSE k4
        ELSE k3

\* Line 334: self._call_tool(tool_name, tool_args, messages=messages); only
\* erase changes the list or the kernel.
CallTool(k, call) ==
    IF call.tool = "erase" THEN EraseCall(k, call.targets).k ELSE k

\* One pass of the loop body of lines 270-364 for output `out`: [k, msgs, used]
\* with msgs the messages it appends to response.
HandleOutput(k, out, call) ==
    IF call.tool = ""
    THEN [k |-> CaptureSummary(k, out, call.chars), msgs |-> <<>>, used |-> FALSE]
    ELSE IF Rejected(call, k.import_stage)
    THEN LET r == AppendFunction(k, "stage_error", 0, FALSE)
         IN  [k |-> r.k, msgs |-> <<r.msg>>, used |-> TRUE]
    ELSE LET result == ToolResult(k, call)
             k1 == StageAfterTool(CallTool(k, call), call)
             r == AppendFunction(k1, result,
                                 truncate_content(call.chars, k.import_cap_chars),
                                 TRUE)
         IN  [k |-> r.k, msgs |-> <<r.msg>>, used |-> TRUE]

\* The erase selectors the model lets the LLM send for a list of n messages.
EraseTargets(n) ==
    {<<>>, <<RangeTarget(0, n)>>}

\* What an assistant output may ask for.
ToolCalls(n) ==
    {FnCall(t, "", <<>>) : t \in {"", "describe_file", "extract_section", "retrieval",
                                  "summarize", "promote", "replace_section"}}
        \cup {FnCall("storage", op, <<>>) : op \in {"scan", "get", "put"}}
        \cup {FnCall("erase", "", ts) : ts \in EraseTargets(n)}

\* Tool results are short here; a plain text has any of the lengths.
LlmCalls(n) ==
    ToolCalls(n) \cup {[FnCall("", "", <<>>) EXCEPT !.chars = l] : l \in ContentLens}

\* _run, lines 270-366, for the next output of the LLM call; after the last one
\* the loop ends (line 365) unless a tool was used.
ProcessOut(call) ==
    /\ pc = "tools"
    /\ out_idx <= Len(output)
    /\ LET r == HandleOutput(Kernel, output[out_idx], call)
           used == used_any_tool \/ r.used
       IN  /\ Becomes(r.k, initial_messages, response \o r.msgs, output)
           /\ used_any_tool' = used
           /\ pc' = IF out_idx < Len(output) THEN "tools"
                    ELSE IF used THEN "loop" ELSE "done"
    /\ out_idx' = out_idx + 1
    /\ UNCHANGED <<num_llm_calls_available, import_stage_ttl_calls, import_cap_chars,
                   erase_result, shape, audit_journal>>

\* model_dump() of a list of messages.
Dump(h, msgs) == [i \in 1..Len(msgs) |-> h[msgs[i]]]

\* record_turn that snapshots the list the loop worked on.
record_turn_WorkingList(k, journal, init, resp) ==
    [k |-> [k EXCEPT !.wc_is_messages = FALSE,
                     !.working_context = init \o resp,
                     !.public_history = to_public_history(k.heap, init \o resp)],
     journal |-> Append(journal, [messages |-> Dump(k.heap, k.messages),
                                  responses |-> Dump(k.heap, resp)])]

\* def record_turn(self, messages, responses)
record_turn(k, journal, init, resp) ==
    [k |-> [k EXCEPT !.wc_is_messages = FALSE,
                     !.working_context = init \o resp,
                     !.public_history = to_public_history(k.heap, init \o resp)],
     journal |-> Append(journal, [messages |-> Dump(k.heap, init),
                                  responses |-> Dump(k.heap, resp)])]

\* _run, lines 367-369, reached by the break or with the budget spent; the
\* generator ends and its locals go.
Finish ==
    /\ \/ pc = "done"
       \/ pc = "loop" /\ num_llm_calls_available = 0
    /\ LET detached == [Kernel EXCEPT !.wc_is_messages = FALSE,
                                      !.working_context = WorkingContext]
           r == IF response # <<>>
                THEN record_turn(Kernel, audit_journal, initial_messages, response)
                ELSE [k |-> detached, journal |-> audit_journal]
       IN  /\ Becomes([r.k EXCEPT !.messages = <<>>], <<>>, <<>>, <<>>)
           /\ audit_journal' = r.journal
    /\ pc' = "idle"
    /\ num_llm_calls_available' = 0
    /\ used_any_tool' = FALSE
    /\ out_idx' = 1
    /\ UNCHANGED <<import_stage_ttl_calls, import_cap_chars, erase_result, shape>>

\* A reset that leaves the audit journal and the call counter alone.
Reset_KeepsJournal ==
    /\ pc = "idle"
    /\ working_context' = <<>>
    /\ erased_last_call' = FALSE
    /\ public_history' = <<>>
    /\ import_stage' = "idle"
    /\ import_stage_started_at' = 0
    /\ ephemeral_entries' = <<>>
    /\ promoted_message_ids' = {}
    /\ last_summary_message' = None
    /\ summary_requested' = FALSE
    /\ heap' = <<>>
    /\ UNCHANGED <<pc, messages, initial_messages, response, output, out_idx,
                   used_any_tool, num_llm_calls_available, import_stage_ttl_calls,
                   import_cap_chars, erase_result, shape, wc_is_messages, audit_journal,
                   call_index>>

\* MetaboliqAgent.reset_kernel / KernelState.reset, between two invocations.
Reset ==
    /\ pc = "idle"
    /\ working_context' = <<>>
    /\ audit_journal' = <<>>
    /\ erased_last_call' = FALSE
    /\ public_history' = <<>>
    /\ call_index' = 0
    /\ import_stage' = "idle"
    /\ import_stage_started_at' = 0
    /\ ephemeral_entries' = <<>>
    /\ promoted_message_ids' = {}
    /\ last_summary_message' = None
    /\ summary_requested' = FALSE
    /\ heap' = <<>>
    /\ UNCHANGED <<pc, messages, initial_messages, response, output, out_idx,
                   used_any_tool, num_llm_calls_available, import_stage_ttl_calls,
                   import_cap_chars, erase_result, shape,
                   wc_is_messages>>

Next ==
    \/ \E input \in Inputs : StartRun(input)
    \/ BeginLlmCall
    \/ \E n \in 0..MaxOut : LlmOutput(n)
    \/ \E call \in LlmCalls(Len(messages)) : ProcessOut(call)
    \/ Finish
    \/ Reset

Spec == Init /\ [][Next]_vars

\* ------------------------------------------------ the loop with the cap on
\* The agent with the default stage TTL and import_cap_chars > 0.
InitCap == KernelInit(DefaultTtlCalls, ImportCapChars)

SpecCap == InitCap /\ [][Next]_vars

\* ------------------------------------------------ the loop, tools that fail
\* A call of a stage tool whose tool raises (a path that is not there, a
\* selector that is not found): the dispatch of line 334 catches the error and
\* returns it as the tool's result.
FailedCalls ==
    {[FnCall(t, "", <<>>) EXCEPT !.fails = TRUE] :
        t \in {"describe_file", "extract_section", "retrieval", "summarize"}}
        \cup {[FnCall("storage", op, <<>>) EXCEPT !.fails = TRUE] : op \in {"scan", "get"}}

\* The calls of the stage tools that succeed, and plain text.
StageCalls ==
    {FnCall(t, "", <<>>) :
        t \in {"describe_file", "extract_section", "retrieval", "summarize", "promote"}}
        \cup {FnCall("storage", op, <<>>) : op \in {"scan", "get"}}
        \cup {[FnCall("", "", <<>>) EXCEPT !.chars = l] : l \in ContentLens}

NextFail ==
    \/ \E input \in Inputs : StartRun(input)
    \/ BeginLlmCall
    \/ \E n \in 0..MaxOut : LlmOutput(n)
    \/ \E call \in StageCalls \cup FailedCalls : ProcessOut(call)
    \/ Finish
    \/ Reset

SpecFail == InitCap /\ [][NextFail]_vars

\* ------------------------------------------- the loop, a second invocation
\* While the invocation is suspended at the yield of line 260, the consumer
\* starts a second _run of the same agent with a list [system, user] and takes
\* its first item: lines 240-251 run for the second invocation's own copy of
\* its list, against self.kernel, the one KernelState of the agent (line 225).
\* The first invocation's locals stay as they are; kernel.working_context is
\* now the second invocation's list.
OtherRun ==
    /\ pc = "llm"
    /\ call_index < MaxCallIndex
    /\ LET o == NewMessages(heap, promoted_message_ids, <<>>, <<"system", "user">>, 1)
           k1 == begin_llm_call([Kernel EXCEPT !.messages = o.list, !.heap = o.heap],
                                import_stage_ttl_calls)
           k2 == [k1 EXCEPT !.messages = messages,
                            !.wc_is_messages = FALSE,
                            !.working_context = k1.messages,
                            !.public_history = to_public_history(k1.heap, k1.messages)]
       IN  Becomes(k2, initial_messages, response, output)
    /\ UNCHANGED <<pc, out_idx, used_any_tool, num_llm_calls_available,
                   import_stage_ttl_calls, import_cap_chars, erase_result, shape,
                   audit_journal>>

NextShared ==
    \/ \E input \in Inputs : StartRun(input)
    \/ BeginLlmCall
    \/ \E n \in 0..MaxOut : LlmOutput(n)
    \/ \E call \in StageCalls : ProcessOut(call)
    \/ Finish
    \/ Reset
    \/ OtherRun

SpecShared == InitCap /\ [][NextShared]_vars

\* ------------------------------------------------- the loop, scheduled
\* The consumer of the generator keeps asking for the next item and every LLM
\* stream ends, so a step of an invocation under way is eventually taken.  A
\* step is named by where it moves the position of the invocation: under Next
\* the steps that satisfy CallBegins, StreamEnds, OutputHandled and RunEnds are
\* the steps of BeginLlmCall, LlmOutput, ProcessOut and Finish.
Position == <<pc, out_idx>>

\* _run, lines 247-251.
CallBegins ==
    /\ pc = "loop"
    /\ num_llm_calls_available > 0
    /\ call_index < MaxCallIndex
    /\ pc' = "llm"
    /\ out_idx' = out_idx

\* _run, lines 255-269.
StreamEnds ==
    /\ pc = "llm"
    /\ pc' \in {"loop", "tools"}
    /\ out_idx' = 1

\* _run, lines 270-366.
OutputHandled ==
    /\ pc = "tools"
    /\ out_idx <= Len(output)
    /\ pc' \in {"tools", "loop", "done"}
    /\ out_idx' = out_idx + 1

\* _run, lines 367-369.
RunEnds ==
    /\ \/ pc = "done"
       \/ pc = "loop" /\ num_llm_calls_available = 0
    /\ pc' = "idle"
    /\ out_idx' = 1

Fairness ==
    /\ WF_Position(CallBegins)
    /\ WF_Position(StreamEnds)
    /\ WF_Position(OutputHandled)
    /\ WF_Position(RunEnds)

SpecLive == Init /\ [][Next]_vars /\ Fairness

\* ------------------------------------------------ the erase tool on its own
\* EraseTool.call(params, messages, kernel) called on a list, outside any _run
\* invocation, again and again.

\* Longest list the tool is first called on.
MaxEraseLen == 3

\* The selectors tried on a list of n messages: every index from -1 to n, the
\* ranges over those bounds, and role/last pairs.
DirectTargets(n) ==
    {IndexTarget(i) : i \in (0 - 1)..n}
        \cup {RangeTarget(a, b) : a, b \in {0 - 1, 0, 1, n}}
        \cup {RoleTarget(r, c) : r \in Roles, c \in (0 - 1)..2}

\* Longest list the help response is asked for.
MaxHelpLen == 8

\* The lists longer than MaxEraseLen: a system message, then user and
\* assistant messages in turn.
LongLists ==
    {[i \in 1..n |-> IF i = 1 THEN "system"
                     ELSE IF i % 2 = 0 THEN "user" ELSE "assistant"] :
        n \in (MaxEraseLen + 1)..MaxHelpLen}

\* params['targets']: no, one or two selectors; on a list longer than
\* MaxEraseLen, none (the help response is all that is asked for).
DirectTargetLists(n) ==
    IF n > MaxEraseLen THEN {<<>>}
    ELSE {<<>>} \cup {<<t>> : t \in DirectTargets(n)}
                \cup {<<IndexTarget(i), t>> : i \in 0..n, t \in DirectTargets(n)}

InitErase ==
    /\ pc = "erase"
    /\ \E roles \in SeqsUpTo(Roles, MaxEraseLen) \cup LongLists :
          LET m == NewMessages(<<>>, {}, <<>>, roles, 1)
          IN  messages = m.list /\ heap = m.heap
    /\ initial_messages = <<>>
    /\ response = <<>>
    /\ output = <<>>
    /\ out_idx = 1
    /\ used_any_tool = FALSE
    /\ num_llm_calls_available = 0
    /\ call_index = 0
    /\ import_stage = "idle"
    /\ import_stage_started_at = 0
    /\ import_stage_ttl_calls = DefaultTtlCalls
    /\ import_cap_chars = 0
    /\ ephemeral_entries = <<>>
    /\ promoted_message_ids = {}
    /\ last_summary_message = None
    /\ summary_requested = FALSE
    /\ erased_last_call = FALSE
    /\ working_context = <<>>
    /\ wc_is_messages = FALSE
    /\ public_history = <<>>
    /\ audit_journal = <<>>
    /\ erase_result = NoResult
    /\ shape = NoShape

EraseDirect(targets) ==
    /\ pc = "erase"
    /\ Becomes(EraseCall(Kernel, targets).k, <<>>, <<>>, <<>>)
    /\ erase_result' = EraseCall(Kernel, targets).result
    /\ UNCHANGED <<pc, out_idx, used_any_tool, num_llm_calls_available,
                   import_stage_ttl_calls, import_cap_chars, audit_journal,
                   shape>>

NextErase == \E targets \in DirectTargetLists(Len(messages)) : EraseDirect(targets)

SpecErase == InitErase /\ [][NextErase]_vars

\* --------------------------------------------- KernelState driven directly
\* The methods of KernelState that track and promote messages, called in any
\* order on one message list by a caller that also appends messages to it.

\* Longest list the caller builds.
MaxKernelLen == 2
\* Cap of call_index in this specification.
MaxKernelCalls == 3
\* Most ephemeral entries the caller's own mark_ephemeral calls build up.
MaxEntries == 2
\* Most message identities this specification mints while earlier ones are
\* still live or remembered as promoted.
MaxKernelIds == 4

InitKernel ==
    /\ pc = "kernel"
    /\ messages = <<>>
    /\ initial_messages = <<>>
    /\ response = <<>>
    /\ output = <<>>
    /\ out_idx = 1
    /\ used_any_tool = FALSE
    /\ num_llm_calls_available = 0
    /\ heap = <<>>
    /\ call_index = 0
    /\ import_stage = "idle"
    /\ import_stage_started_at = 0
    /\ import_stage_ttl_calls = DefaultTtlCalls
    /\ import_cap_chars = 0
    /\ ephemeral_entries = <<>>
    /\ promoted_message_ids = {}
    /\ last_summary_message = None
    /\ summary_requested = FALSE
    /\ erased_last_call = FALSE
    /\ working_context = <<>>
    /\ wc_is_messages = FALSE
    /\ public_history = <<>>
    /\ audit_journal = <<>>
    /\ erase_result = NoResult
    /\ shape = NoShape

\* The next state of a step that calls one kernel method.
KernelStep(k) ==
    /\ pc = "kernel"
    /\ Becomes(k, <<>>, <<>>, <<>>)
    /\ UNCHANGED <<pc, out_idx, used_any_tool, num_llm_calls_available,
                   import_stage_ttl_calls, import_cap_chars, erase_result, shape,
                   audit_journal>>

\* The caller appends a new message to its list.
KNewMessage(role) ==
    /\ Len(messages) < MaxKernelLen
    /\ NewId(heap, promoted_message_ids) <= MaxKernelIds
    /\ LET m == NewMessages(heap, promoted_message_ids, messages, <<role>>, 1)
       IN  KernelStep([Kernel EXCEPT !.heap = m.heap, !.messages = m.list])

KBeginLlmCall ==
    /\ call_index < MaxKernelCalls
    /\ Len(messages) <= MaxKernelLen
    /\ NewId(heap, promoted_message_ids) <= MaxKernelIds
    /\ KernelStep(begin_llm_call(Kernel, import_stage_ttl_calls))

KMarkEphemeral(i) ==
    /\ Len(ephemeral_entries) < MaxEntries
    /\ KernelStep(mark_ephemeral(Kernel, messages[i], 1, "tool"))

KMarkSummaryCandidate(i) ==
    /\ Len(ephemeral_entries) < MaxEntries
    /\ KernelStep(mark_summary_candidate(Kernel, messages[i]))

KPromoteLastSummary == KernelStep(promote_last_summary(Kernel))

Stages == {"idle", "outline", "select", "summarize"}

KSetImportStage(stage) == KernelStep(set_import_stage(Kernel, stage))

KReplaceWithSummary(i) == KernelStep(replace_with_summary(Kernel, messages[i]))

\* def reset(self); the caller's list is its own.
reset(k) ==
    [k EXCEPT !.working_context = <<>>,
              !.wc_is_messages = FALSE,
              !.erased_last_call = FALSE,
              !.public_history = <<>>,
              !.call_index = 0,
              !.import_stage = "idle",
              !.import_stage_started_at = 0,
              !.ephemeral_entries = <<>>,
              !.promoted_message_ids = {},
              !.last_summary_message = None,
              !.summary_requested = FALSE]

KReset == KernelStep(reset(Kernel))

NextKernel ==
    \/ \E role \in {"user", "assistant"} : KNewMessage(role)
    \/ KBeginLlmCall
    \/ \E i \in 1..Len(messages) : KMarkEphemeral(i)
    \/ \E i \in 1..Len(messages) : KMarkSummaryCandidate(i)
    \/ KPromoteLastSummary
    \/ \E stage \in Stages : KSetImportStage(stage)
    \/ \E i \in 1..Len(messages) : KReplaceWithSummary(i)
    \/ KReset

SpecKernel == InitKernel /\ [][NextKernel]_vars

\* ------------------------------------------ the kernel, summaries requested
\* The kernel driven through the methods that make, request, promote and expire
\* a summary.
KRequestSummary == KernelStep(request_summary(Kernel))

NextSummary ==
    \/ \E role \in {"user", "assistant"} : KNewMessage(role)
    \/ KBeginLlmCall
    \/ \E i \in 1..Len(messages) : KMarkEphemeral(i)
    \/ \E i \in 1..Len(messages) : KMarkSummaryCandidate(i)
    \/ KPromoteLastSummary
    \/ KRequestSummary
    \/ \E stage \in Stages : KSetImportStage(stage)
    \/ KReset

SpecSummary == InitKernel /\ [][NextSummary]_vars

\* ---------------------------------------------- the kernel, left to decay
\* The kernel is driven for a while, then the caller stops touching its list
\* and only calls begin_llm_call on it, again and again, in stage idle.
\* begin_llm_call reads call_index only against expires_at (lines 69 and 141)
\* and, outside stage idle, against import_stage_started_at (line 128), so the
\* call numbers are kept finite by moving their origin: past MaxKernelCalls,
\* call_index and every expires_at are counted from two calls later.
Recounted(k) ==
    IF k.call_index <= MaxKernelCalls THEN k
    ELSE [k EXCEPT !.call_index = @ - 2,
                   !.ephemeral_entries =
                       [i \in DOMAIN @ |-> [@[i] EXCEPT !.expires_at = @ - 2]]]

\* The caller stops adding and marking messages.
StartDecay ==
    /\ pc = "kernel"
    /\ import_stage = "idle"
    /\ pc' = "decay"
    /\ UNCHANGED <<messages, initial_messages, response, output, out_idx,
                   used_any_tool, num_llm_calls_available, heap, call_index,
                   import_stage, import_stage_started_at, import_stage_ttl_calls,
                   import_cap_chars, ephemeral_entries, promoted_message_ids,
                   last_summary_message, summary_requested, erased_last_call,
                   working_context, wc_is_messages, public_history, audit_journal,
                   erase_result, shape>>

\* One more begin_llm_call on the same list.
DecayCall ==
    /\ pc = "decay"
    /\ Becomes(Recounted(begin_llm_call(Kernel, import_stage_ttl_calls)),
               <<>>, <<>>, <<>>)
    /\ UNCHANGED <<pc, out_idx, used_any_tool, num_llm_calls_available,
                   import_stage_ttl_calls, import_cap_chars, erase_result, shape,
                   audit_journal>>

\* What a begin_llm_call of the decay does to the call number.
CallCounted ==
    /\ pc = "decay"
    /\ call_index' = IF call_index < MaxKernelCalls
                      THEN call_index + 1 ELSE call_index - 1

NextDecay ==
    \/ \E role \in {"user", "assistant"} : KNewMessage(role)
    \/ KBeginLlmCall
    \/ \E i \in 1..Len(messages) : KMarkEphemeral(i)
    \/ \E i \in 1..Len(messages) : KMarkSummaryCandidate(i)
    \/ KPromoteLastSummary
    \/ StartDecay
    \/ DecayCall

\* The caller does call begin_llm_call again.
SpecDecay == InitKernel /\ [][NextDecay]_vars /\ WF_call_index(CallCounted)

\* ------------------------------------------------- the shape tools, driven
\* extract_section and replace_section called again and again on one file: a
\* .json file, a .csv file or a .py file.

\* Longest str value and longest list value written into the .json file.
MaxStrLen == 3
MaxListLen == 3
\* Longest replacement source and longest .py file.
MaxSrcLen == 3
MaxDocLen == 8
\* Largest page and page_size a caller asks for.
MaxPage == 3
MaxPageSize == 2

StrChars == {10, 120}
SrcChars == {10, 98, 102, 103}

MapValues ==
    {IntV(n) : n \in {1, 99}}
        \cup {StrV(s) : s \in SeqsUpTo(StrChars, MaxStrLen)}
        \cup {ListV(l) : l \in SeqsUpTo({1, 99}, MaxListLen)}

TableValues ==
    {IntV(n) : n \in {1, 99}} \cup {StrV(s) : s \in SeqsUpTo(StrChars, MaxStrLen)}

\* Source texts whose lines are each one of the lines above, or blank.
TreeValues ==
    {StrV(s) : s \in {x \in SeqsUpTo(SrcChars, MaxSrcLen) :
                        \A i \in 1..(Len(x) - 1) : x[i] = 10 \/ x[i + 1] = 10}}

\* The selectors tried on a file and the values written at a selector.
Selectors(kind) ==
    IF kind = "map"
    THEN {Selector("a", <<>>)} \cup {Selector("a", <<i>>) : i \in 0..(MaxListLen - 1)}
    ELSE IF kind = "table"
    THEN {Selector(c, <<r>>) : c \in {"a", "b"}, r \in 0..1}
    ELSE {Selector(n, <<>>) : n \in {"function:f", "function:g"}}

Values(kind, sel) ==
    IF kind = "map"
    THEN (IF sel.path = <<>> THEN MapValues ELSE {IntV(n) : n \in {1, 99}})
    ELSE IF kind = "table" THEN TableValues
    ELSE TreeValues

\* The files the tools start from: {"a": [1, 99, 1]}; a table with columns a, b
\* and the row 1,x; a module with the functions f and g.
MapFile == [NoShape EXCEPT !.kind = "map", !.doc = [k \in {"a"} |-> ListV(<<1, 99, 1>>)]]

TableFile ==
    [NoShape EXCEPT !.kind = "table",
                    !.doc = [header |-> <<"a", "b">>, rows |-> <<<<<<49>>, <<120>>>>>>]]

TreeFile == [NoShape EXCEPT !.kind = "tree", !.doc = <<102, 10, 98, 10, 103, 10, 98, 10>>]

InitShape ==
    /\ pc = "shape"
    /\ messages = <<>>
    /\ initial_messages = <<>>
    /\ response = <<>>
    /\ output = <<>>
    /\ out_idx = 1
    /\ used_any_tool = FALSE
    /\ num_llm_calls_available = 0
    /\ heap = <<>>
    /\ call_index = 0
    /\ import_stage = "idle"
    /\ import_stage_started_at = 0
    /\ import_stage_ttl_calls = DefaultTtlCalls
    /\ import_cap_chars = 0
    /\ ephemeral_entries = <<>>
    /\ promoted_message_ids = {}
    /\ last_summary_message = None
    /\ summary_requested = FALSE
    /\ erased_last_call = FALSE
    /\ working_context = <<>>
    /\ wc_is_messages = FALSE
    /\ public_history = <<>>
    /\ audit_journal = <<>>
    /\ erase_result = NoResult
    /\ \/ shape = MapFile
       \/ shape = TableFile
       \/ shape = TreeFile

\* A step of a shape tool leaves the agent alone.
ShapeStep ==
    /\ pc = "shape"
    /\ UNCHANGED <<pc, messages, initial_messages, response, output, out_idx,
                   used_any_tool, num_llm_calls_available, heap, call_index,
                   import_stage, import_stage_started_at, import_stage_ttl_calls,
                   import_cap_chars, ephemeral_entries, promoted_message_ids,
                   last_summary_message, summary_requested, erased_last_call,
                   working_context, wc_is_messages, public_history, audit_journal,
                   erase_result>>

Request(op, sel, page, page_size) ==
    [op |-> op, sel |-> sel, value |-> IntV(0), page |-> page, page_size |-> page_size]

\* replace_section {path, selector, value}; `replaced` remembers the last
\* replacement that succeeded.
ReplaceSection(sel, value) ==
    /\ ShapeStep
    /\ LET r == replace(shape.kind, shape.doc, sel, value)
       IN  /\ shape.kind = "tree" => Len(r.doc) <= MaxDocLen
           /\ shape' = [shape EXCEPT
                          !.doc = r.doc,
                          !.req = Request("replace", sel, 0, 0),
                          !.resp = r.resp,
                          !.replaced = IF r.resp.ok
                                       THEN [Request("replace", sel, 0, 0)
                                                EXCEPT !.value = value]
                                       ELSE @]

\* extract_section {path, selector, page, page_size}
ExtractSection(sel, page, page_size) ==
    /\ ShapeStep
    /\ shape' = [shape EXCEPT
                   !.req = Request("select", sel, page, page_size),
                   !.resp = select(shape.kind, shape.doc, sel, page, page_size)]

NextShape ==
    \/ \E sel \in Selectors(shape.kind) : \E value \in Values(shape.kind, sel) :
          ReplaceSection(sel, value)
    \/ \E sel \in Selectors(shape.kind) : \E page \in 1..MaxPage :
          \E page_size \in 1..MaxPageSize : ExtractSection(sel, page, page_size)

SpecShape == InitShape /\ [][NextShape]_vars

\* ================================================================ claims

LastMessage(h, msgs) == h[msgs[Len(msgs)]]

\* The list with the non-user, non-system messages taken out.
UserSystemOnly(h, msgs) == SelectSeq(msgs, LAMBDA m : UserOrSystem(h, m))

\* C1: a tool call whose stage tool is extract_section, storage.get or retrieval
\* outside stage outline, a summarize call outside stage select and a promote
\* call outside stage summarize are rejected without being dispatched: the step
\* leaves import_stage, import_stage_started_at, summary_requested,
\* last_summary_message and the promoted set as they were and appends exactly
\* one function message, which carries the stage error.
C1_Gated(call) ==
    \/ /\ StageTool(call) \in {"extract_section", "storage.get", "retrieval"}
       /\ import_stage # "outline"
    \/ call.tool = "summarize" /\ import_stage # "select"
    \/ call.tool = "promote" /\ import_stage # "summarize"

C1_StageGateRejects ==
    [][\A call \in LlmCalls(Len(messages)) :
          (C1_Gated(call) /\ ProcessOut(call)) =>
              /\ UNCHANGED <<import_stage, import_stage_started_at, summary_requested,
                             last_summary_message, promoted_message_ids,
                             erased_last_call>>
              /\ Len(messages') = Len(messages) + 1
              /\ SubSeq(messages', 1, Len(messages)) = messages
              /\ messages'[Len(messages')] \notin DOMAIN heap
              /\ LastMessage(heap', messages').role = "function"
              /\ LastMessage(heap', messages').content = "stage_error"
              /\ response' = Append(response, messages'[Len(messages')])]_vars

\* A promote call was rejected in stage select: the error message is the last
\* message and the stage is still select.
C1_Witness ==
    /\ pc \in {"tools", "loop"}
    /\ import_stage = "select"
    /\ messages # <<>>
    /\ LastMessage(heap, messages).content = "stage_error"

\* C2: import_stage becomes select only from outline and summarize only from
\* select, a promote call is dispatched (so that the loop calls
\* promote_last_summary) only in stage summarize, and the promoted set gains a
\* message only in a step taken in stage summarize.
C2_PipelineOrder ==
    [][/\ (import_stage' = "select" /\ import_stage # "select")
              => import_stage = "outline"
       /\ (import_stage' = "summarize" /\ import_stage # "summarize")
              => import_stage = "select"
       /\ (/\ import_stage # "summarize"
           /\ ProcessOut(FnCall("promote", "", <<>>)))
              => LastMessage(heap', messages').content = "stage_error"
       /\ ~(promoted_message_ids' \subseteq promoted_message_ids)
              => import_stage = "summarize"]_vars

\* A summary was promoted and the stage went back to idle.
C2_Witness ==
    /\ promoted_message_ids # {}
    /\ last_summary_message \in promoted_message_ids
    /\ import_stage = "idle"

\* The radical reset of _enforce_stage_ttl as begin_llm_call leaves it.
C3_Wiped ==
    /\ messages' = UserSystemOnly(heap, messages)
    /\ ephemeral_entries' = <<>>
    /\ promoted_message_ids' = {}
    /\ last_summary_message' = None
    /\ import_stage' = "idle"
    /\ import_stage_started_at' = call_index'

\* begin_llm_call did not reset: the stage timestamp and the promoted set stand.
C3_NotWiped ==
    /\ import_stage_started_at' = import_stage_started_at
    /\ promoted_message_ids' = promoted_message_ids

\* C3 as stated: begin_llm_call resets exactly when, with call_index
\* incremented, the stage is not idle and call_index - import_stage_started_at
\* >= import_stage_ttl_calls.
C3_AsStated ==
    [][BeginLlmCall =>
          IF /\ import_stage # "idle"
             /\ call_index' - import_stage_started_at >= import_stage_ttl_calls
          THEN C3_Wiped ELSE C3_NotWiped]_vars

\* C3, amended: begin_llm_call resets exactly when import_stage_ttl_calls > 0,
\* the stage is not idle and, with call_index incremented, call_index -
\* import_stage_started_at >= import_stage_ttl_calls; the reset leaves the user
\* and system messages in their order, no ephemeral entry, no promoted message,
\* no last summary, and stage idle started at call_index.
C3_TtlReset ==
    [][BeginLlmCall =>
          IF /\ import_stage_ttl_calls > 0
             /\ import_stage # "idle"
             /\ call_index' - import_stage_started_at >= import_stage_ttl_calls
          THEN C3_Wiped ELSE C3_NotWiped]_vars

\* begin_llm_call has just reset a stage that had lasted ttl calls, and messages
\* were wiped with it.
C3_Witness ==
    /\ pc = "llm"
    /\ import_stage_ttl_calls = DefaultTtlCalls
    /\ call_index = DefaultTtlCalls + 1
    /\ import_stage = "idle"
    /\ import_stage_started_at = call_index
    /\ Len(response) > 0
    /\ Len(messages) = Len(initial_messages)

\* C4: with import_stage_ttl_calls > 0, right after begin_llm_call the stage is
\* idle or has lasted fewer than import_stage_ttl_calls calls.
C4_NoStaleStage ==
    (pc = "llm" /\ import_stage_ttl_calls > 0) =>
        \/ import_stage = "idle"
        \/ call_index - import_stage_started_at < import_stage_ttl_calls

\* A stage in its last allowed call is handed to the LLM.
C4_Witness ==
    /\ pc = "llm"
    /\ import_stage_ttl_calls > 0
    /\ import_stage # "idle"
    /\ call_index - import_stage_started_at = import_stage_ttl_calls - 1

\* C5: right after begin_llm_call every message of the list is a user or system
\* message, is promoted, or has an ephemeral entry with expires_at >= call_index.
C5_EveryMessageTracked ==
    pc = "llm" =>
        \A i \in 1..Len(messages) :
            \/ UserOrSystem(heap, messages[i])
            \/ messages[i] \in promoted_message_ids
            \/ \E e \in Range(ephemeral_entries) :
                  e.message = messages[i] /\ e.expires_at >= call_index

\* The first non-system message of the list, None when there is none.
FirstNonSystem(h, msgs) ==
    LET nonsys == {i \in 1..Len(msgs) : h[msgs[i]].role # "system"}
    IN  IF nonsys = {} THEN None
        ELSE msgs[CHOOSE i \in nonsys : \A j \in nonsys : i <= j]

\* The list is empty of non-system messages or its first one is a user message.
UserFirst(h, msgs) ==
    FirstNonSystem(h, msgs) # None => h[FirstNonSystem(h, msgs)].role = "user"

\* C7: an erase call that removes a message leaves a list whose first
\* non-system message, if any, is a user message: the surviving messages in
\* their order, with one new user message '[deleted]' right before the first
\* surviving non-system message when that one is not a user message, and
\* nothing new otherwise.
C7_EraseRepairsTurnOrder ==
    [][LET survivors == KeepIn(messages, Range(messages'))
           added == Range(messages') \ Range(messages)
           first == FirstNonSystem(heap, survivors)
       IN  (pc = "erase" /\ Len(survivors) < Len(messages)) =>
              /\ UserFirst(heap', messages')
              /\ KeepIn(messages', Range(messages)) = survivors
              /\ IF first # None /\ heap[first].role # "user"
                 THEN \E i \in 1..(Len(messages') - 1) :
                         /\ added = {messages'[i]}
                         /\ heap'[messages'[i]] = Msg("user", "[deleted]", 0)
                         /\ messages'[i + 1] = first
                         /\ Len(messages') = Len(survivors) + 1
                 ELSE messages' = survivors]_vars

\* An erase call left a system message, the synthetic user message and an
\* assistant message behind (scenario 5's shape).
C7_Witness ==
    /\ pc = "erase"
    /\ erased_last_call
    /\ Len(messages) >= 3
    /\ heap[messages[1]].role = "system"
    /\ heap[messages[2]] = Msg("user", "[deleted]", 0)
    /\ heap[messages[3]].role = "assistant"

\* C8: in every list handed to the LLM the first non-system message, if there
\* is one, is a user message.
C8_UserFirstAtLlmCall ==
    pc = "llm" => UserFirst(heap, messages)

\* C9: the ephemeral table holds at most one entry for a message.
C9_OneEntryPerMessage ==
    \A i, j \in 1..Len(ephemeral_entries) :
        ephemeral_entries[i].message = ephemeral_entries[j].message => i = j

\* The loop stands right before a begin_llm_call that follows another one with
\* nothing in between: the LLM call in between returned no message.
SecondCallInARow ==
    /\ pc = "loop"
    /\ output = <<>>
    /\ num_llm_calls_available < MaxLlmCallPerRun

\* C10 as stated: the second of two begin_llm_call in a row removes no message
\* and appends no policy_notice.
C10_AsStated ==
    [][(SecondCallInARow /\ BeginLlmCall) => messages' = messages]_vars

\* C10, amended: the second of two begin_llm_call in a row removes no message
\* and appends no policy_notice provided no ephemeral entry has expires_at equal
\* to the first call's call_index and the stage TTL does not fire at the second
\* call.
C10_SecondCallPrunesOnlyExpired ==
    [][(/\ SecondCallInARow
        /\ BeginLlmCall
        /\ \A e \in Range(ephemeral_entries) : e.expires_at # call_index
        /\ ~(/\ import_stage_ttl_calls > 0
             /\ import_stage # "idle"
             /\ call_index' - import_stage_started_at >= import_stage_ttl_calls))
          => messages' = messages]_vars

\* Two calls in a row were made on a list with a tracked assistant message, and
\* the message is still there.
C10_Witness ==
    /\ pc = "llm"
    /\ output = <<>>
    /\ num_llm_calls_available = MaxLlmCallPerRun - 2
    /\ call_index = 2
    /\ ephemeral_entries # <<>>
    /\ \E i \in 1..Len(messages) : heap[messages[i]].role = "assistant"

\* C6: no ephemeral entry refers to a message whose identity is in the promoted
\* set.
C6_NoPromotedEntry ==
    \A e \in Range(ephemeral_entries) : e.message \notin promoted_message_ids

\* A promoted message stands in the list beside a tracked one, calls later.
C6_Witness ==
    /\ pc = "kernel"
    /\ call_index >= 2
    /\ ephemeral_entries # <<>>
    /\ \E i \in 1..Len(messages) : messages[i] \in promoted_message_ids

\* C11: a dispatched promote call adds last_summary_message to the promoted set
\* and moves the stage to idle exactly when the promote tool returns
\* promoted: True (stage summarize, a last summary, its content no longer than
\* import_cap_chars); when the tool returns promoted: False the promoted set
\* and the stage stay as they were.
C11_PromoteFollowsTool ==
    [][(import_stage = "summarize" /\ ProcessOut(FnCall("promote", "", <<>>))) =>
          IF PromoteCall(Kernel)
          THEN /\ promoted_message_ids' = promoted_message_ids \cup {last_summary_message}
               /\ import_stage' = "idle"
               /\ LastMessage(heap', messages').content = "promoted"
          ELSE /\ UNCHANGED <<promoted_message_ids, import_stage>>
               /\ LastMessage(heap', messages').content = "not_promoted"]_vars

\* C12: with import_cap_chars > 0, the content the loop has put under the cap
\* (the function message of a dispatched tool call, a captured summary) is no
\* longer than import_cap_chars.
C12_ContentUnderCap ==
    import_cap_chars > 0 =>
        \A m \in DOMAIN heap : heap[m].chars <= import_cap_chars

\* The last step of the pipeline: a promote call is accepted in stage summarize
\* (reached, by C2, through outline and select) while the captured summary is
\* in the list.
HappyPromote ==
    /\ import_stage = "summarize"
    /\ import_stage_ttl_calls > 0
    /\ last_summary_message # None
    /\ last_summary_message \in Range(messages)
    /\ ProcessOut(FnCall("promote", "", <<>>))

TtlFires ==
    /\ import_stage_ttl_calls > 0
    /\ import_stage # "idle"
    /\ call_index + 1 - import_stage_started_at >= import_stage_ttl_calls

\* The promoted set loses nothing, and a begin_llm_call leaves every promoted
\* message of the list in the list.
PromotionKept ==
    /\ promoted_message_ids \subseteq promoted_message_ids'
    /\ (call_index' = call_index + 1 /\ KBeginLlmCall) =>
          \A m \in promoted_message_ids \cap Range(messages) : m \in Range(messages')

\* C14 as stated: but for reset(), no kernel operation takes a message out of
\* the promoted set and no begin_llm_call removes a promoted message from the
\* list.
C14_AsStated ==
    [][PromotionKept \/ KReset]_vars

\* C14, amended: but for reset() and for the begin_llm_call at which the stage
\* TTL fires, no kernel operation takes a message out of the promoted set and
\* no begin_llm_call removes a promoted message from the list.
C14_PersistentUntilWipe ==
    [][PromotionKept \/ KReset \/ (TtlFires /\ KBeginLlmCall)]_vars

\* A promoted message is still in the list after a begin_llm_call: a summary
\* candidate marked since the promotion, one call ago, has not expired yet.
C14_Witness ==
    /\ pc = "kernel"
    /\ \E m \in promoted_message_ids : m \in Range(messages)
    /\ last_summary_message # None
    /\ last_summary_message \notin promoted_message_ids
    /\ \E e \in Range(ephemeral_entries) :
          /\ e.message = last_summary_message
          /\ e.kind = "summary"
          /\ e.expires_at = call_index

\* C15: reset() leaves the kernel as KernelState.__init__ does for the same
\* cfg: empty working context, public history, audit journal, ephemeral table
\* and promoted set, no last summary, summary_requested and erased_last_call
\* False, call_index 0, stage idle started at 0, and the ttl and the cap of
\* the cfg.
C15_ResetIsFresh ==
    [][Reset => KernelInit(import_stage_ttl_calls, import_cap_chars)']_vars

\* reset() is about to act on a kernel that has recorded a turn, promoted a
\* summary and still tracks messages.
C15_Witness ==
    /\ pc = "idle"
    /\ call_index > 0
    /\ audit_journal # <<>>
    /\ working_context # <<>>
    /\ public_history # <<>>
    /\ ephemeral_entries # <<>>
    /\ promoted_message_ids # {}
    /\ last_summary_message # None

\* The in-range indices a selector addresses: the index, the indices of the
\* range, the last `last` messages of the role.
Addressed(h, msgs, t) ==
    LET n == Len(msgs)
    IN  CASE t.sel = "index" -> {i \in 0..(n - 1) : i = t.index}
          [] t.sel = "range" ->
               {i \in 0..(n - 1) : /\ Min(t.start, t.end) <= i
                                   /\ i <= Max(t.start, t.end)}
          [] t.sel = "role" ->
               LET of_role == {i \in 0..(n - 1) : h[msgs[i + 1]].role = t.role}
               IN  {i \in of_role :
                      Cardinality({j \in of_role : j >= i}) <= t.last}
          [] OTHER -> {}

\* C16: an erase call leaves every system message in the list, in order, and
\* reports in 'skipped' every in-range message a selector addresses whose role
\* is not assistant, function or user.
C16_SystemKeptAndSkipped ==
    [][\A targets \in DirectTargetLists(Len(messages)) :
          EraseDirect(targets) =>
              /\ SelectSeq(messages', LAMBDA m : m \in DOMAIN heap
                                                 /\ heap[m].role = "system")
                    = SelectSeq(messages, LAMBDA m : heap[m].role = "system")
              /\ Len(targets) > 0 =>
                    \A j \in 1..Len(targets) :
                        \A i \in Addressed(heap, messages, targets[j]) :
                            heap[messages[i + 1]].role \notin ErasableRoles
                                => i \in Range(erase_result'.skipped)]_vars

\* The kernel fields and the list are as they were.
KernelUntouched ==
    UNCHANGED <<messages, heap, call_index, import_stage, import_stage_started_at,
                import_stage_ttl_calls, import_cap_chars, ephemeral_entries,
                promoted_message_ids, last_summary_message, summary_requested,
                erased_last_call, working_context, wc_is_messages, public_history,
                audit_journal>>

\* The last min(k, Len(msgs)) indices of the list with their roles, in order.
LastEntries(h, msgs, k) ==
    LET n == Len(msgs)
        cnt == Min(k, n)
    IN  [j \in 1..cnt |-> [index |-> n - cnt + j - 1,
                           role |-> h[msgs[n - cnt + j]].role]]

\* C17: an erase call with empty targets returns the help response, and an
\* erase call that returns the help response or matches no erasable message
\* leaves the list and every kernel field as they were and returns erased =
\* []; the help response previews the last min(6, len(messages)) messages in
\* order and its example is the index of the most recent assistant message
\* (none when there is no assistant message).  A call that erases reports at
\* least one erased index.
C17_NoMatchNoChange ==
    [][/\ EraseDirect(<<>>) => erase_result'.kind = "help"
       /\ (pc = "erase" /\ erase_result'.kind \in {"help", "none"}) =>
              /\ KernelUntouched
              /\ erase_result'.erased = <<>>
       /\ (pc = "erase" /\ erase_result'.kind = "help") =>
              /\ erase_result'.recent = LastEntries(heap, messages, 6)
              /\ \A i \in 0..(Len(messages) - 1) :
                     heap[messages[i + 1]].role = "assistant" =>
                         /\ erase_result'.example # <<>>
                         /\ erase_result'.example[1] >= i
              /\ erase_result'.example # <<>> =>
                     /\ erase_result'.example[1] \in 0..(Len(messages) - 1)
                     /\ heap[messages[erase_result'.example[1] + 1]].role = "assistant"
       /\ (pc = "erase" /\ erase_result'.kind = "erased") =>
              /\ erase_result'.erased # <<>>
              /\ Len(KeepIn(messages', Range(messages))) < Len(messages)]_vars

\* The help response was returned for a list of more than 6 messages: the
\* preview has 6 entries and starts after the first messages.
C17_Witness ==
    /\ pc = "erase"
    /\ erase_result.kind = "help"
    /\ Len(messages) > 6
    /\ Len(erase_result.recent) = 6
    /\ erase_result.recent[1].index = Len(messages) - 6
    /\ erase_result.example = <<Len(messages) - 1 - ((Len(messages) + 1) % 2)>>
    /\ ~erased_last_call

\* The model's cap of call_index, not the code, keeps the loop from its next
\* LLM call.
CallIndexCapped ==
    pc = "loop" /\ num_llm_calls_available > 0 /\ call_index >= MaxCallIndex

\* C18: every LLM call of an invocation takes one unit of a budget that starts
\* at MAX_LLM_CALL_PER_RUN and is never refilled before the invocation ends;
\* after the last output of an LLM call the loop ends exactly when no output
\* was a tool call; with the budget at zero no LLM call is made; and every
\* invocation under way ends (with record_turn and the final yield).
C18_RunTerminates ==
    /\ [][/\ BeginLlmCall =>
               /\ num_llm_calls_available > 0
               /\ num_llm_calls_available' = num_llm_calls_available - 1
          /\ num_llm_calls_available' > num_llm_calls_available =>
               /\ pc = "idle"
               /\ num_llm_calls_available' = MaxLlmCallPerRun
          /\ (pc = "tools" /\ pc' # "tools") =>
               pc' = IF used_any_tool' THEN "loop" ELSE "done"
          /\ (pc = "loop" /\ num_llm_calls_available = 0) => pc' \in {"loop", "idle"}
          /\ pc = "done" => pc' \in {"done", "idle"}]_vars
    /\ (pc # "idle") ~> (pc = "idle" \/ CallIndexCapped)

\* The budget ran out while the LLM was still calling tools: the loop is about
\* to end silently.
C18_Witness ==
    /\ pc = "loop"
    /\ num_llm_calls_available = 0
    /\ used_any_tool
    /\ Len(response) >= MaxLlmCallPerRun

\* The invocation ends in this step.
RunEnding == pc # "idle" /\ pc' = "idle"

\* The journal after the step is the journal before it and one more entry.
OneEntryAdded ==
    /\ Len(audit_journal') = Len(audit_journal) + 1
    /\ SubSeq(audit_journal', 1, Len(audit_journal)) = audit_journal

\* C19: the step that ends an invocation adds exactly one entry to the audit
\* journal when the response is not empty and none when it is empty; no other
\* step changes the journal except reset, which empties it; the entry's
\* messages are the dump of the invocation's input: the copy taken when the
\* invocation starts equals the list the loop starts from, whose messages are
\* as handed in, and no step of the invocation changes the copy.
C19_JournalAppendOnly ==
    [][/\ (RunEnding /\ response # <<>>) =>
            /\ OneEntryAdded
            /\ audit_journal'[Len(audit_journal')].messages
                    = Dump(heap, initial_messages)
       /\ (RunEnding /\ response = <<>>) => audit_journal' = audit_journal
       /\ ~RunEnding =>
            \/ audit_journal' = audit_journal
            \/ Reset /\ audit_journal' = <<>>
       /\ (pc = "idle" /\ pc' # "idle") =>
            /\ Dump(heap', initial_messages') = Dump(heap', messages')
            /\ \A i \in 1..Len(initial_messages') :
                   heap'[initial_messages'[i]]
                       = Msg(heap'[initial_messages'[i]].role, "text", 0)
       /\ (pc # "idle" /\ pc' # "idle") =>
            Dump(heap', initial_messages') = Dump(heap, initial_messages)]_vars

\* Two invocations are in the journal, an erase call rewrote the list of one
\* of them, and the last entry holds more messages than were left in the list.
C19_Witness ==
    /\ pc = "idle"
    /\ Len(audit_journal) >= 2
    /\ erased_last_call
    /\ Len(audit_journal[Len(audit_journal)].messages) >= 2

\* The kernel d calls later in its life: every call number it holds moved by d.
\* begin_llm_call reads call numbers only by comparing them with each other
\* (lines 128-129 and 141).
AtCall(k, d) ==
    [k EXCEPT !.call_index = @ + d,
              !.import_stage_started_at = @ + d,
              !.ephemeral_entries =
                  [i \in DOMAIN @ |-> [@[i] EXCEPT !.expires_at = @ + d]]]

\* Only user and system messages and policy notices, and at least one notice.
WipedWithNotice(h, msgs) ==
    /\ \A i \in 1..Len(msgs) :
          UserOrSystem(h, msgs[i]) \/ h[msgs[i]].content = "notice"
    /\ \E i \in 1..Len(msgs) : h[msgs[i]].content = "notice"

\* import_stage_ttl_calls = 2 and the next begin_llm_call is the second one
\* after the call at which stage outline was entered.
OutlineTwoCallsOld ==
    /\ import_stage_ttl_calls = DefaultTtlCalls
    /\ import_stage = "outline"
    /\ call_index + 1 = import_stage_started_at + 2

\* C20: with import_stage_ttl_calls = 2 and stage outline entered two calls
\* before, begin_llm_call leaves a list that holds user and system messages
\* and a policy_notice function message, and nothing else; so it does when
\* outline was entered at call 5 and the call is call 7.
C20_CircuitBreakerNotice ==
    [][(BeginLlmCall /\ OutlineTwoCallsOld) =>
          LET k == begin_llm_call(AtCall(Kernel, 5 - import_stage_started_at),
                                  import_stage_ttl_calls)
          IN  /\ WipedWithNotice(heap', messages')
              /\ k.call_index = 7
              /\ WipedWithNotice(k.heap, k.messages)]_vars

\* extract_section was just called with the selector of the last replacement
\* that succeeded, page 1 and the default page_size.
SelectedAfterReplace ==
    /\ shape.req.op = "select"
    /\ shape.replaced.op = "replace"
    /\ shape.req.sel = shape.replaced.sel
    /\ shape.req.page = 1
    /\ shape.req.page_size = DefaultPageSize

\* C21: for a .py, a .json and a .csv file, after replace(path, selector,
\* value) succeeded, select(path, selector) succeeds and its 'value' is value.
C21_ReplaceSelectRoundTrip ==
    SelectedAfterReplace =>
        /\ shape.resp.ok
        /\ shape.resp.value = shape.replaced.value

\* ceil(n / d)
Ceil(n, d) == (n + d - 1) \div d

RECURSIVE Concat(_)
Concat(seqs) == IF Len(seqs) = 0 THEN <<>> ELSE seqs[1] \o Concat(Tail(seqs))

\* The pages 1 .. ceil(total / page_size) of items are each non-empty, make up
\* items when put one after the other, and say 'truncated' and give next_page
\* = page + 1 on all but the last, which gives no next_page.
Partitions(items, page_size) ==
    LET last == Ceil(Len(items), page_size)
        pages == [p \in 1..last |-> paginate_list(items, p, page_size)]
    IN  /\ Concat([p \in 1..last |-> pages[p].items]) = items
        /\ \A p \in 1..last :
              /\ pages[p].items # <<>>
              /\ pages[p].page = p
              /\ pages[p].page_size = page_size
              /\ pages[p].total = Len(items)
              /\ pages[p].truncated <=> p < last
              /\ pages[p].next_page = IF p < last THEN p + 1 ELSE None

\* A page of paginate_text is the page of paginate_list on the lines of the
\* text, joined.
TextPages(text, page_size) ==
    \A p \in 1..Ceil(Len(splitlines(text)), page_size) :
        LET page_info == paginate_list(splitlines(text), p, page_size)
            page == paginate_text(text, p, page_size)
        IN  /\ page.text = join(page_info.items)
            /\ page.page = page_info.page
            /\ page.page_size = page_info.page_size
            /\ page.total = page_info.total
            /\ page.truncated = page_info.truncated
            /\ page.next_page = page_info.next_page

\* The lists and the texts of the file that extract_section pages through.
FileLists == IF shape.kind = "map"
             THEN {shape.doc[k].v : k \in {x \in DOMAIN shape.doc : shape.doc[x].t = "list"}}
             ELSE {}

FileTexts == IF shape.kind = "map"
             THEN {shape.doc[k].v : k \in {x \in DOMAIN shape.doc : shape.doc[x].t = "str"}}
             ELSE IF shape.kind = "tree" THEN {shape.doc}
             ELSE {}

\* C22: for every list and every text of the file and every page_size >= 1
\* the pages 1 .. ceil(total / page_size) of paginate_list are non-empty and
\* make up the list (the lines of the text) in page order, 'truncated' holds
\* exactly on the pages before the last, next_page is page + 1 exactly when
\* truncated and None otherwise, and a page of paginate_text is the page of
\* lines joined by newlines; a paged response of extract_section carries the
\* same fields.
C22_PagesPartition ==
    /\ \A page_size \in 1..MaxPageSize :
          /\ \A items \in FileLists : Partitions(items, page_size)
          /\ \A text \in FileTexts :
                /\ Partitions(splitlines(text), page_size)
                /\ TextPages(text, page_size)
    /\ shape.resp.paged =>
          /\ shape.resp.truncated
                 <=> shape.resp.page < Ceil(shape.resp.total, shape.resp.page_size)
          /\ shape.resp.next_page
                 = IF shape.resp.truncated THEN shape.resp.page + 1 ELSE None

\* extract_section returned the second of three pages of a list.
C22_Witness ==
    /\ shape.req.op = "select"
    /\ shape.resp.paged
    /\ shape.resp.value.t = "list"
    /\ shape.resp.page = 2
    /\ shape.resp.total = 3
    /\ shape.resp.truncated
    /\ shape.resp.next_page = 3

\* The kernel as begin_llm_call has it when it calls _prune_ephemeral.
BeforePrune ==
    mark_default_ephemeral(
        enforce_stage_ttl([Kernel EXCEPT !.call_index = @ + 1],
                          import_stage_ttl_calls))

\* The messages of the entries _prune_ephemeral finds expired.
Pruned ==
    {e.message : e \in {x \in Range(BeforePrune.ephemeral_entries) :
                           x.expires_at < BeforePrune.call_index}}

\* The policy notices of a list.
Notices(h, msgs) == {i \in 1..Len(msgs) : h[msgs[i]].content = "notice"}

\* C23: the LLM is invoked only right after begin_llm_call; a begin_llm_call
\* that finds expired entries leaves the list without their messages and with
\* one new function message at its end, the policy notice that counts them;
\* one that finds none leaves the list as it was; and no other step of the
\* loop puts a policy notice into the list.
C23_OneNoticeLast ==
    [][/\ pc' = "llm" => BeginLlmCall
       /\ BeginLlmCall =>
            IF Pruned # {}
            THEN /\ Len(messages') = Len(DropIn(BeforePrune.messages, Pruned)) + 1
                 /\ SubSeq(messages', 1, Len(messages') - 1)
                        = DropIn(BeforePrune.messages, Pruned)
                 /\ messages'[Len(messages')] \notin DOMAIN heap
                 /\ LastMessage(heap', messages')
                        = Msg("function", "notice", Cardinality(Pruned))
            ELSE messages' = BeforePrune.messages
       /\ ~BeginLlmCall =>
            Cardinality(Notices(heap', messages')) <= Cardinality(Notices(heap, messages))]_vars

\* begin_llm_call has just pruned two messages: the list handed to the LLM
\* ends with the notice that says so.
C23_Witness ==
    /\ pc = "llm"
    /\ Len(messages) >= 2
    /\ LastMessage(heap, messages) = Msg("function", "notice", 2)
    /\ Cardinality(Notices(heap, messages)) = 1

\* The messages of the list that begin_llm_call has marked with ttl 1 in this
\* step: the policy notice it made (line 160) and the messages it found
\* untracked (line 107).
MarkedByCall ==
    {m \in Range(messages') :
        /\ ~UserOrSystem(heap', m)
        /\ \/ m \notin DOMAIN heap
           \/ \E e \in Range(ephemeral_entries') :
                 /\ e.message = m
                 /\ e.kind = "auto"
                 /\ e.expires_at = call_index' + 1}

\* The kernel and the list at the next begin_llm_call and at the one after it
\* when the LLM calls in between return nothing (line 258: the list and the
\* kernel stay as they are).
AtNextCall == begin_llm_call(Kernel', import_stage_ttl_calls)
AtSecondCall == begin_llm_call(AtNextCall, import_stage_ttl_calls)

\* C24: a message that is not a user or system message and that begin_llm_call
\* of call c marks with ttl 1 is in the list handed to the LLM at call c + 1
\* and, unless promoted, not in the list handed to the LLM at call c + 2.
C24_EphemeralLifetime ==
    [][BeginLlmCall =>
          \A m \in MarkedByCall :
              /\ m \in Range(AtNextCall.messages)
              /\ m \notin AtSecondCall.promoted_message_ids
                     => m \notin Range(AtSecondCall.messages)]_vars

\* Lines 272-279: the loop meets a plain assistant output while a summary is
\* awaited.
SummaryCaptured ==
    /\ import_stage = "summarize"
    /\ summary_requested
    /\ ProcessOut(FnCall("", "", <<>>))

\* C25: when the loop meets a plain assistant output while the stage is
\* summarize and a summary is requested, the list becomes exactly its user and
\* system messages, that output and its promoted messages in their order, the
\* ephemeral table has entries for kept messages only, last_summary_message is
\* that output and summary_requested is false.
C25_SummaryCapture ==
    [][SummaryCaptured =>
          /\ messages' = SelectSeq(messages,
                                   LAMBDA m : \/ UserOrSystem(heap, m)
                                              \/ m = output[out_idx]
                                              \/ m \in promoted_message_ids)
          /\ output[out_idx] \in Range(messages')
          /\ \A e \in Range(ephemeral_entries') : e.message \in Range(messages')
          /\ last_summary_message' = output[out_idx]
          /\ ~summary_requested']_vars

\* _prune_ephemeral finds the last summary among the expired messages
\* (line 148).
SummaryExpired ==
    /\ BeforePrune.last_summary_message # None
    /\ BeforePrune.last_summary_message \in Pruned

\* C26: a begin_llm_call that prunes the entry of last_summary_message leaves
\* last_summary_message None and summary_requested false and turns a stage
\* summarize into idle; a prune that does not take the last summary leaves
\* last_summary_message, summary_requested and import_stage as they were when
\* the prune began.
C26_SummaryExpiry ==
    [][KBeginLlmCall =>
          IF SummaryExpired
          THEN /\ last_summary_message' = None
               /\ ~summary_requested'
               /\ import_stage' = IF BeforePrune.import_stage = "summarize"
                                   THEN "idle"
                                   ELSE BeforePrune.import_stage
          ELSE /\ last_summary_message' = BeforePrune.last_summary_message
               /\ summary_requested' = BeforePrune.summary_requested
               /\ import_stage' = BeforePrune.import_stage]_vars

\* The summary marked at call 0 and requested again at call 1 has expired at
\* call 2: the list ends with the notice, the summary is forgotten and the
\* stage summarize entered at call 1 is idle.
C26_Witness ==
    /\ pc = "kernel"
    /\ call_index = 2
    /\ messages # <<>>
    /\ LastMessage(heap, messages).content = "notice"
    /\ last_summary_message = None
    /\ ~summary_requested
    /\ import_stage = "idle"
    /\ import_stage_started_at = 1
    /\ ephemeral_entries = <<>>

\* The result of a dispatched call is an error: the tool raised, or promote
\* answered promoted: False.
ResultIsError(call) ==
    \/ call.fails
    \/ call.tool = "promote" /\ ~PromoteCall(Kernel)

\* C27: a dispatched call of a stage tool whose result is an error leaves
\* import_stage, import_stage_started_at and summary_requested as they were.
C27_StageOnSuccessOnly ==
    [][\A call \in StageCalls \cup FailedCalls :
          (/\ call.tool # ""
           /\ ~Rejected(call, import_stage)
           /\ ResultIsError(call)
           /\ ProcessOut(call))
              => UNCHANGED <<import_stage, import_stage_started_at,
                             summary_requested>>]_vars

\* The function messages a step has made and put into the list.
NewFunctionMessages ==
    {m \in Range(messages') : m \notin DOMAIN heap /\ heap'[m].role = "function"}

\* C28: the outputs of one LLM call are handled in the order of the list; the
\* handling of a tool call, dispatched or rejected, makes exactly one function
\* message, puts it at the end of messages and of response and gives it an
\* ephemeral entry that expires after the next call; after the last output of
\* a call with a tool call the loop is back at its test, which begins another
\* LLM call while the budget lasts.
C28_OneFunctionMessagePerCall ==
    [][/\ ProcessOut(FnCall("", "", <<>>)) => NewFunctionMessages = {}
       /\ \A call \in ToolCalls(Len(messages)) :
              (call.tool # "" /\ ProcessOut(call)) =>
                  LET fn == messages'[Len(messages')]
                  IN  /\ out_idx' = out_idx + 1
                      /\ NewFunctionMessages = {fn}
                      /\ response' = Append(response, fn)
                      /\ call.tool # "erase" => messages' = Append(messages, fn)
                      /\ Len(SelectSeq(ephemeral_entries', LAMBDA e : e.message = fn)) = 1
                      /\ \E e \in Range(ephemeral_entries') :
                             e.message = fn /\ e.expires_at = call_index + 1
                      /\ used_any_tool'
                      /\ pc' = IF out_idx < Len(output) THEN "tools" ELSE "loop"
       /\ (pc = "loop" /\ num_llm_calls_available > 0) =>
              (pc' = "llm" /\ call_index' = call_index + 1)]_vars

\* Both outputs of an LLM call were tool calls, the first rejected and the
\* second dispatched: the response ends with their two function messages in
\* that order and the loop is back at its test with budget left.
C28_Witness ==
    /\ pc = "loop"
    /\ num_llm_calls_available > 0
    /\ Len(output) = 2
    /\ Len(response) = 4
    /\ heap[response[3]].content = "stage_error"
    /\ heap[response[4]].content = "result"
    /\ messages[Len(messages)] = response[4]
    /\ messages[Len(messages) - 1] = response[3]
    /\ \A i \in {3, 4} : \E e \in Range(ephemeral_entries) : e.message = response[i]

\* C29: public_history is the projection of working_context onto its user and
\* assistant messages, in every state _run hands to its caller and after every
\* kernel or erase operation.
C29_PublicHistoryProjection ==
    public_history = to_public_history(heap, WorkingContext)

\* C30: import_stage_started_at is the call_index of the latest change of
\* import_stage: a step that changes the stage sets it to the current
\* call_index, a step that does not change the stage leaves it alone, and
\* reset() sets it to 0.
C30_StartedAt ==
    [][IF KReset
       THEN import_stage_started_at' = 0
       ELSE IF import_stage' # import_stage
       THEN import_stage_started_at' = call_index'
       ELSE import_stage_started_at' = import_stage_started_at]_vars

\* C31: import_stage becomes outline only in a state in which it was idle.
C31_OutlineOnlyFromIdle ==
    [][(import_stage' = "outline" /\ import_stage # "outline")
          => import_stage = "idle"]_vars

\* The messages this invocation has put into its list and response (lines 263-264,
\* 298-299, 359-360) that are no longer in the list: an erase call,
\* _prune_ephemeral, replace_with_summary or _enforce_stage_ttl took them out.
Destroyed == Range(response) \ Range(messages)

\* C32: a message taken out of the list during an invocation is not in
\* working_context after any later step, the record_turn that ends the
\* invocation included.
C32_DestroyedStaysDestroyed ==
    [][\A m \in Destroyed : m \notin Range(WorkingContext')]_vars

\* The list holds user, system and promoted messages only.
Decayed ==
    \A m \in Range(messages) :
        UserOrSystem(heap, m) \/ m \in promoted_message_ids

\* C33: once begin_llm_call is all that is called, on the same list and in
\* stage idle, the list comes to hold user, system and promoted messages only
\* and stays so.
C33_DecayLiveness ==
    [](pc = "decay" => <>[]Decayed)

\* C34: a second invocation of the same agent that runs while this one is
\* suspended at a yield leaves what this invocation observes as it was: the
\* stage its calls are gated by, and for each of its messages with an
\* ephemeral entry the number of LLM calls the message still has.
CallsLeft(entries, idx) ==
    {<<entries[i].message, entries[i].expires_at - idx>> : i \in DOMAIN entries}

C34_InvocationsIsolated ==
    [][OtherRun =>
        /\ import_stage' = import_stage
        /\ \A e \in CallsLeft(ephemeral_entries, call_index) :
               e[1] \in Range(messages) =>
                   e \in CallsLeft(ephemeral_entries', call_index')]_vars

\* A plain assistant output whose content the LLM streamed with l characters.
PlainText(l) == [FnCall("", "", <<>>) EXCEPT !.chars = l]

\* C35: every list _run yields extends the one it yielded before: while an
\* invocation lasts the messages of `response` stay where they are, in order,
\* and handling a plain output, which the stream has already yielded with its
\* l characters, leaves its content at that length.
C35_StreamingMonotone ==
    [][/\ (pc # "idle" /\ pc' # "idle") =>
              /\ Len(response') >= Len(response)
              /\ SubSeq(response', 1, Len(response)) = response
       /\ \A l \in ContentLens :
              ProcessOut(PlainText(l)) =>
                  heap'[output[out_idx]].chars \in {heap[output[out_idx]].chars, l}]_vars

\* C36: a summary is awaited only in stage summarize: summary_requested
\* implies import_stage = 'summarize' in every reachable state.
C36_RequestedOnlyInSummarize ==
    summary_requested => import_stage = "summarize"

\* C37: with the default stage TTL, a summary captured by the last output of
\* LLM call c, in a call that goes on to call c + 1, can be promoted there: a
\* promote call of call c + 1 is not rejected, last_summary_message is still
\* that summary and still in the list, and the call puts it in the promoted set.
C37_PromoteAtNextCall ==
    [][(/\ SummaryCaptured
        /\ import_stage_ttl_calls = DefaultTtlCalls
        /\ pc' = "loop") =>
          LET promote == FnCall("promote", "", <<>>)
              k == AtNextCall
              r == HandleOutput(k, output[out_idx], promote).k
          IN  /\ ~Rejected(promote, k.import_stage)
              /\ k.last_summary_message = output[out_idx]
              /\ output[out_idx] \in Range(k.messages)
              /\ output[out_idx] \in r.promoted_message_ids]_vars

\* C38: when begin_llm_call appends a policy notice, the notice's
\* expired_entries is the number of messages the call has removed from the list
\* in its pruning.
C38_NoticeCountsRemoved ==
    [][(BeginLlmCall /\ Pruned # {}) =>
          LastMessage(heap', messages').expired
              = Len(BeforePrune.messages) - (Len(messages') - 1)]_vars

\* The indices, from 0 and ascending, of the min(K, n) most recent of the n
\* messages of role S; none when K <= 0 or S is not erasable.
MostRecent(h, msgs, S, K) ==
    LET indices == SelectSeq([i \in 1..Len(msgs) |-> i - 1],
                             LAMBDA i : h[msgs[i + 1]].role = S)
        n == Len(indices)
        take == IF K <= 0 THEN 0 ELSE Min(K, n)
    IN  IF S \in ErasableRoles THEN SubSeq(indices, n - take + 1, n) ELSE <<>>

\* C39: an erase call with the one target {role: S, last: K} erases the
\* min(K, n) most recent messages of role S and no other; with K = 0 or K < 0
\* it erases nothing.
C39_RoleLastErasesAtMostK ==
    [][\A S \in Roles, K \in (0 - 1)..2 :
           EraseDirect(<<RoleTarget(S, K)>>) =>
               erase_result'.erased = MostRecent(heap, messages, S, K)]_vars

\* The calls of tools that are not part of the reintegration pipeline.
OtherTools(n) ==
    {FnCall("replace_section", "", <<>>), FnCall("storage", "put", <<>>)}
        \cup {FnCall("erase", "", ts) : ts \in EraseTargets(n)}

\* C40: handling a call of a tool that is not an outline tool, a select tool,
\* summarize or promote leaves the stage, its start, summary_requested,
\* last_summary_message and the promoted set as they were.
C40_OtherToolsKeepStage ==
    [][\A call \in OtherTools(Len(messages)) :
           ProcessOut(call) =>
               UNCHANGED <<import_stage, import_stage_started_at, summary_requested,
                           last_summary_message, promoted_message_ids>>]_vars

\* An erase call dispatched in stage summarize has emptied the list of all but
\* the system message, and its result is the last message; a summary is still
\* awaited.
C40_Witness ==
    /\ pc \in {"tools", "loop"}
    /\ import_stage = "summarize"
    /\ summary_requested
    /\ erased_last_call
    /\ Len(messages) = 2
    /\ heap[messages[1]].role = "system"
    /\ LastMessage(heap, messages) = Sized(Msg("function", "result", 0), 1)

====
